---------------------------- MODULE Spec2Model ----------------------------
(***************************************************************************)
(* A model of the trading-engine backend: the indicator library            *)
(* (backend/indicators.py) and the rule evaluation engine                  *)
(* (backend/strategy_engine.py).                                           *)
(*                                                                         *)
(* Numbers.  A pandas/numpy float is modelled as an exact rational         *)
(* [n |-> numerator, d |-> denominator] in lowest terms with d > 0, or as  *)
(* one of the three IEEE specials, which have d = 0: NaN (n = 0), +inf     *)
(* (n = 1) and -inf (n = -1).  Arithmetic and comparisons follow IEEE 754  *)
(* on the specials (every comparison with NaN is false, x/0 is +-inf,      *)
(* 0/0 is NaN); rounding error of binary floating point is not modelled.   *)
(*                                                                         *)
(* Frames.  A pandas DataFrame is modelled by its set of columns, its      *)
(* number of rows and its close column; the indicators modelled here       *)
(* (SMA, EMA, RSI, MACD, PRICE(close)) read no other column, and neither    *)
(* do the preset scanners of backend/preset_strategies.py.                 *)
(***************************************************************************)
EXTENDS Integers, Sequences, FiniteSets, TLC

VARIABLES
    crossA, crossB,     \* the two series handed to check_crossover / check_crossunder
    crossed,            \* their results: [above |-> BOOLEAN, below |-> BOOLEAN]
    data,               \* the frame handed to evaluate_condition
    condition,          \* the ConditionModel handed to evaluate_condition
    outcome,            \* what evaluate_condition did: [done, exc, val]
    strategy,           \* the StrategyModel handed to evaluate_strategy
    evaluation,         \* what evaluate_strategy did: [done, exc, all_met, ...]
    strategies,         \* StrategyEngine.strategies: strategy id -> StrategyModel
    stock_data_dict,    \* scan_stocks' argument: the (symbol, frame) items, in dict order
    pc,                 \* where scan_stocks is: "idle", "loop" or "returned"
    scanned,            \* scan_stocks' local strategy (None before the call)
    pending,            \* the items the for loop of scan_stocks has yet to visit
    results,            \* scan_stocks' local results list
    returned,           \* the list scan_stocks returned
    preset,             \* the preset scanner that was called, with its days
                        \* argument (None when none was)
    given_period,       \* the period handed to calculate_sma / calculate_rsi
    sma,                \* what calculate_sma gave back (None before the call)
    rsi,                \* what calculate_rsi gave back (None before the call)
    response,           \* the list a scan endpoint of main.py sent back (None before)
    zz,                 \* the locals of create_zigzag_points (None before the call)
    now,                \* datetime.now(), in whole seconds
    reply,              \* what the last call on the strategy store gave back
    history             \* the evaluations of evaluate_strategy made so far

vars == <<crossA, crossB, crossed, data, condition, outcome, strategy, evaluation,
          strategies, stock_data_dict, pc, scanned, pending, results, returned,
          preset, given_period, sma, rsi, response, zz, now, reply, history>>

-----------------------------------------------------------------------------
(* Bounds of the model.                                                    *)

\* Longest series handed to the crossover detectors.
CrossMaxLen == 3
\* Prices are 1 + k/200 for k in 0..MaxTick: steps of 0.005, so that two prices
\* may differ by less than, exactly, or more than the 0.01 tolerance of ==.
MaxTick == 2
\* Longest close column of a frame handed to evaluate_condition.
MaxLen == 3
\* Samples handed to the crossover detectors are 1..CrossMaxVal, or NaN.
CrossMaxVal == 2
\* Most conditions of a strategy.
MaxConds == 2
\* Longest close column of a frame handed to scan_stocks.
ScanMaxLen == 3
\* The longest frames handed to a preset scanner have MaxExtra rows more than
\* the scanner asks for.
MaxExtra == 4
\* Largest days argument of the top gainers and losers.
MaxDays == 3
\* Most instruments of a dict handed to the top gainers and losers.
MaxBatch == 22
\* Longest close column handed to calculate_sma and calculate_rsi; the periods
\* go up to one more, a window larger than the series.
IndMaxLen == 4
\* The closes handed to them are 1..IndMaxVal.
IndMaxVal == 3

-----------------------------------------------------------------------------
(* Floats.                                                                 *)

NaN == [n |-> 0, d |-> 0]
PosInf == [n |-> 1, d |-> 0]
NegInf == [n |-> -1, d |-> 0]

Abs(i) == IF i < 0 THEN -i ELSE i

RECURSIVE GCD(_, _)
GCD(a, b) == IF b = 0 THEN a ELSE GCD(b, a % b)

\* The float n/d, d # 0, in lowest terms.
R(n, d) ==
    LET s == IF d < 0 THEN -1 ELSE 1
        g == GCD(Abs(n), Abs(d))
    IN  [n |-> (s * n) \div g, d |-> (s * d) \div g]

Int2F(i) == [n |-> i, d |-> 1]

isna(x) == x = NaN
IsFinite(x) == x.d # 0
Sign(x) == IF x.n > 0 THEN 1 ELSE IF x.n < 0 THEN -1 ELSE 0

FNeg(x) == [n |-> -x.n, d |-> x.d]

FAdd(x, y) ==
    IF isna(x) \/ isna(y) THEN NaN
    ELSE IF ~IsFinite(x) THEN (IF ~IsFinite(y) /\ y # x THEN NaN ELSE x)
    ELSE IF ~IsFinite(y) THEN y
    ELSE R(x.n * y.d + y.n * x.d, x.d * y.d)

FSub(x, y) == FAdd(x, FNeg(y))

FMul(x, y) ==
    IF isna(x) \/ isna(y) THEN NaN
    ELSE IF ~IsFinite(x) \/ ~IsFinite(y)
         THEN (IF Sign(x) * Sign(y) = 0 THEN NaN
               ELSE [n |-> Sign(x) * Sign(y), d |-> 0])
    ELSE R(x.n * y.n, x.d * y.d)

FDiv(x, y) ==
    IF isna(x) \/ isna(y) THEN NaN
    ELSE IF ~IsFinite(y)
         THEN (IF ~IsFinite(x) THEN NaN ELSE Int2F(0))
    ELSE IF y.n = 0
         THEN (IF Sign(x) = 0 THEN NaN ELSE [n |-> Sign(x), d |-> 0])
    ELSE IF ~IsFinite(x) THEN [n |-> Sign(x) * Sign(y), d |-> 0]
    ELSE R(x.n * y.d, x.d * y.n)

FAbs(x) == [n |-> Abs(x.n), d |-> x.d]

\* x < y; false when either is NaN.
FLt(x, y) ==
    IF isna(x) \/ isna(y) THEN FALSE
    ELSE IF ~IsFinite(x) \/ ~IsFinite(y)
         THEN (IF ~IsFinite(x) /\ ~IsFinite(y) THEN x.n < y.n
               ELSE IF ~IsFinite(x) THEN x.n < 0
               ELSE y.n > 0)
    ELSE x.n * y.d < y.n * x.d

FEq(x, y) == ~isna(x) /\ ~isna(y) /\ x = y
FGt(x, y) == FLt(y, x)
FLe(x, y) == FLt(x, y) \/ FEq(x, y)
FGe(x, y) == FLe(y, x)

-----------------------------------------------------------------------------
(* pandas Series operations: a Series is a sequence of floats, oldest      *)
(* first.                                                                  *)

\* Series.iloc[-k]
ilocNeg(s, k) == s[Len(s) + 1 - k]

\* The sum of s[lo..hi], by halves.
RECURSIVE SumRange(_, _, _)
SumRange(s, lo, hi) ==
    IF lo > hi THEN Int2F(0)
    ELSE IF lo = hi THEN s[lo]
    ELSE FAdd(SumRange(s, lo, (lo + hi) \div 2),
              SumRange(s, (lo + hi) \div 2 + 1, hi))

SumSeq(s) == SumRange(s, 1, Len(s))

\* Series.rolling(window, min_periods=1).mean(): the mean of the samples there
\* are, up to window of them.
rolling_mean_min_periods_1(s, window) ==
    [i \in 1..Len(s) |->
        IF i < window THEN FDiv(SumSeq(SubSeq(s, 1, i)), Int2F(i))
        ELSE FDiv(SumSeq(SubSeq(s, i - window + 1, i)), Int2F(window))]

\* Series.rolling(window).mean(): min_periods = window, so a position with
\* fewer than window samples behind it, or with a NaN in its window, is NaN.
rolling_mean(s, window) ==
    [i \in 1..Len(s) |->
        IF i < window THEN NaN
        ELSE LET w == SubSeq(s, i - window + 1, i)
             IN  IF \E j \in 1..Len(w) : isna(w[j]) THEN NaN
                 ELSE FDiv(SumSeq(w), Int2F(window))]

\* Series.diff(): the first difference is NaN.
diff(s) ==
    [i \in 1..Len(s) |-> IF i = 1 THEN NaN ELSE FSub(s[i], s[i - 1])]

\* Series.ewm(span, adjust=False).mean() of a NaN-free series:
\* y[1] = x[1], y[i] = (1 - alpha) y[i-1] + alpha x[i], alpha = 2 / (span + 1).
\* EwmRange is y[lo..hi], given y[lo-1]; it is computed by halves.
RECURSIVE EwmRange(_, _, _, _, _)
RECURSIVE EwmJoin(_, _, _, _, _)
EwmJoin(s, alpha, lo, hi, left) ==
    left \o EwmRange(s, alpha, lo, hi, left[Len(left)])

EwmRange(s, alpha, lo, hi, prev) ==
    IF lo > hi THEN <<>>
    ELSE IF lo = hi
    THEN <<FAdd(FMul(FSub(Int2F(1), alpha), prev), FMul(alpha, s[lo]))>>
    ELSE EwmJoin(s, alpha, (lo + hi) \div 2 + 1, hi,
                 EwmRange(s, alpha, lo, (lo + hi) \div 2, prev))

ewm_mean(s, span) ==
    IF Len(s) <= 1 THEN s
    ELSE <<s[1]>> \o EwmRange(s, R(2, span + 1), 2, Len(s), s[1])

-----------------------------------------------------------------------------
(* Frames and what a call gives back.                                      *)

\* Python's None, for an absent indicator2, indicator2_params, value or frame.
None == [none |-> TRUE]
\* None in the indicator2 field of a condition; the field holds the name of an
\* IndicatorType, so its None is modelled as a name that no indicator has.
NoIndicator == "None"

\* A DataFrame with a close column.
Frame(closes) == [columns |-> {"close"}, nrows |-> Len(closes), close |-> closes]
\* A DataFrame with the columns high, low and close.
FrameOHLC(highs, lows, closes) ==
    [columns |-> {"high", "low", "close"}, nrows |-> Len(closes),
     high |-> highs, low |-> lows, close |-> closes]
\* A DataFrame of nrows rows that lacks its close column (a malformed series).
FrameNoClose(nrows) == [columns |-> {}, nrows |-> nrows, close |-> <<>>]

\* A call that returned the Series s, returned None, or raised exception e.
SeriesRet(s) == [exc |-> "", none |-> FALSE, s |-> s]
NoneRet == [exc |-> "", none |-> TRUE, s |-> <<>>]
RaiseRet(e) == [exc |-> e, none |-> FALSE, s |-> <<>>]

\* data[col]: KeyError when the frame has no such column.
Column(frame, col) ==
    IF col \in frame.columns THEN SeriesRet(frame[col]) ELSE RaiseRet("KeyError")

\* params.get(key, default)
Get(params, key, default) ==
    IF key \in DOMAIN params THEN params[key] ELSE default

-----------------------------------------------------------------------------
(* backend/indicators.py: IndicatorCalculator.                             *)
(*                                                                         *)
(* A value the code binds to a local and then reads several times is       *)
(* passed here as the argument of a helper operator that models the rest   *)
(* of the function.                                                        *)

\* The Series s computed from column c of the frame, or c's KeyError.
OnColumn(c, s) == IF c.exc # "" THEN c ELSE SeriesRet(s)

calculate_sma(frame, period) ==
    OnColumn(Column(frame, "close"), rolling_mean(frame.close, period))

calculate_ema(frame, period) ==
    OnColumn(Column(frame, "close"), ewm_mean(frame.close, period))

\* delta.where(delta > 0, 0): NaN > 0 is false, so the NaN first difference
\* becomes 0 too.
where_gt0(delta) ==
    [i \in 1..Len(delta) |-> IF FGt(delta[i], Int2F(0)) THEN delta[i] ELSE Int2F(0)]

\* delta.where(delta < 0, 0), the sign being kept.
neg_where_lt0_unnegated(delta) ==
    [i \in 1..Len(delta) |->
        IF FLt(delta[i], Int2F(0)) THEN delta[i] ELSE Int2F(0)]

\* -delta.where(delta < 0, 0)
neg_where_lt0(delta) ==
    [i \in 1..Len(delta) |->
        FNeg(IF FLt(delta[i], Int2F(0)) THEN delta[i] ELSE Int2F(0))]

\* rs = gain / loss; rsi = 100 - (100 / (1 + rs))
rsi_of(gain, loss) ==
    [i \in 1..Len(gain) |->
        FSub(Int2F(100),
             FDiv(Int2F(100), FAdd(Int2F(1), FDiv(gain[i], loss[i]))))]

calculate_rsi(frame, period) ==
    OnColumn(Column(frame, "close"),
             rsi_of(rolling_mean(where_gt0(diff(frame.close)), period),
                    rolling_mean(neg_where_lt0(diff(frame.close)), period)))

\* Elementwise a - b of two Series of the same length.
SeriesSub(a, b) == [i \in 1..Len(a) |-> FSub(a[i], b[i])]

\* The three lines, given macd_line.
macd_lines(macd_line, signal_line) ==
    [macd |-> macd_line, signal |-> signal_line,
     histogram |-> SeriesSub(macd_line, signal_line)]

macd_of(macd_line, signal) == macd_lines(macd_line, ewm_mean(macd_line, signal))

\* The dict of the three MACD lines, as [exc, lines].
calculate_macd(frame, fast, slow, signal) ==
    IF Column(frame, "close").exc # ""
    THEN [exc |-> Column(frame, "close").exc, lines |-> <<>>]
    ELSE [exc |-> "",
          lines |-> macd_of(SeriesSub(ewm_mean(frame.close, fast),
                                      ewm_mean(frame.close, slow)), signal)]

\* The default of the lookback parameter of check_crossover / check_crossunder.
Lookback == 2

\* check_crossover with a strict test on the earlier sample.
check_crossover_strict(series1, series2) ==
    IF Len(series1) < Lookback \/ Len(series2) < Lookback THEN FALSE
    ELSE FLt(ilocNeg(series1, 2), ilocNeg(series2, 2))
         /\ FGt(ilocNeg(series1, 1), ilocNeg(series2, 1))

\* check_crossover as a search over the history: any bar at which series1
\* went from not above to above series2.
check_crossover_history(series1, series2) ==
    IF Len(series1) < Lookback \/ Len(series2) < Lookback THEN FALSE
    ELSE \E k \in 1..(IF Len(series1) < Len(series2)
                      THEN Len(series1) ELSE Len(series2)) - 1 :
            /\ FLe(ilocNeg(series1, k + 1), ilocNeg(series2, k + 1))
            /\ FGt(ilocNeg(series1, k), ilocNeg(series2, k))

check_crossover(series1, series2) ==
    IF Len(series1) < Lookback \/ Len(series2) < Lookback THEN FALSE
    ELSE FLe(ilocNeg(series1, 2), ilocNeg(series2, 2))
         /\ FGt(ilocNeg(series1, 1), ilocNeg(series2, 1))

\* check_crossunder with the comparisons of check_crossover left in place.
check_crossunder_unmirrored(series1, series2) ==
    IF Len(series1) < Lookback \/ Len(series2) < Lookback THEN FALSE
    ELSE FLe(ilocNeg(series1, 2), ilocNeg(series2, 2))
         /\ FGt(ilocNeg(series1, 1), ilocNeg(series2, 1))

check_crossunder(series1, series2) ==
    IF Len(series1) < Lookback \/ Len(series2) < Lookback THEN FALSE
    ELSE FGe(ilocNeg(series1, 2), ilocNeg(series2, 2))
         /\ FLt(ilocNeg(series1, 1), ilocNeg(series2, 1))

-----------------------------------------------------------------------------
(* backend/indicators.py: calculate_adx, lines 84-113.  The function       *)
(* assigns into Series in place (lines 95-96), so its Series are modelled  *)
(* as objects: a record of the Series the locals are bound to, of which    *)
(* high, low and close are the columns of the caller's frame.              *)

\* Series.shift(): the samples one row later, NaN first.
shift(s) == [i \in 1..Len(s) |-> IF i = 1 THEN NaN ELSE s[i - 1]]

\* Lines 87-93: high, low and close are the frame's columns; diff() and the
\* product with -1 give new Series.
adx_locals(frame) ==
    [high |-> frame.high, low |-> frame.low, close |-> frame.close,
     plus_dm |-> diff(frame.high),
     minus_dm |-> [i \in 1..Len(frame.low) |->
                      FMul(diff(frame.low)[i], Int2F(-1))]]

\* s[mask < 0] = 0: the samples of s at the rows where mask is negative
\* become 0 (NaN < 0 is false).
assign_where_lt0(s, mask) ==
    [i \in 1..Len(s) |-> IF FLt(mask[i], Int2F(0)) THEN Int2F(0) ELSE s[i]]

\* high[plus_dm < 0] = 0 and low[minus_dm < 0] = 0: the assignments made to
\* the columns the differences were taken of.
adx_assign_to_columns(locals) ==
    [locals EXCEPT !.high = assign_where_lt0(locals.high, locals.plus_dm),
                   !.low = assign_where_lt0(locals.low, locals.minus_dm)]

\* Lines 95-96: plus_dm[plus_dm < 0] = 0 and minus_dm[minus_dm < 0] = 0.
adx_assign(locals) ==
    [locals EXCEPT !.plus_dm = assign_where_lt0(locals.plus_dm, locals.plus_dm),
                   !.minus_dm = assign_where_lt0(locals.minus_dm, locals.minus_dm)]

\* The larger of two floats, a NaN being skipped.
MaxSkipNa(x, y) == IF isna(x) THEN y ELSE IF isna(y) THEN x ELSE IF FLt(x, y) THEN y ELSE x

\* Lines 99-102: pd.concat([tr1, tr2, tr3], axis=1).max(axis=1), which skips
\* the NaN of the shifted close.
true_range(high, low, close) ==
    [i \in 1..Len(high) |->
        MaxSkipNa(FSub(high[i], low[i]),
                  MaxSkipNa(FAbs(FSub(high[i], shift(close)[i])),
                            FAbs(FSub(low[i], shift(close)[i]))))]

\* Lines 106-107: 100 * (dm.rolling(window=period).mean() / atr)
directional_index(dm, atr, period) ==
    [i \in 1..Len(dm) |->
        FMul(Int2F(100), FDiv(rolling_mean(dm, period)[i], atr[i]))]

\* Line 110: 100 * abs(plus_di - minus_di) / (plus_di + minus_di)
dx_of(plus_di, minus_di) ==
    [i \in 1..Len(plus_di) |->
        FDiv(FMul(Int2F(100), FAbs(FSub(plus_di[i], minus_di[i]))),
             FAdd(plus_di[i], minus_di[i]))]

\* Lines 105-111, atr being computed.
adx_with_atr(locals, atr, period) ==
    rolling_mean(dx_of(directional_index(locals.plus_dm, atr, period),
                       directional_index(locals.minus_dm, atr, period)),
                 period)

\* Lines 99-113 on the locals after the assignments.
adx_of(locals, period) ==
    adx_with_atr(locals,
                 rolling_mean(true_range(locals.high, locals.low, locals.close),
                              period),
                 period)

\* Lines 87-89: the first column the frame lacks raises KeyError.
HasOHLC(frame) == {"high", "low", "close"} \subseteq frame.columns

calculate_adx(frame, period) ==
    IF ~HasOHLC(frame) THEN RaiseRet("KeyError")
    ELSE SeriesRet(adx_of(adx_assign(adx_locals(frame)), period))

\* The caller's frame when calculate_adx has returned: its columns are the
\* Series that high, low and close are bound to.
frame_after_adx(frame) ==
    IF ~HasOHLC(frame) THEN frame
    ELSE [frame EXCEPT !.high = adx_assign(adx_locals(frame)).high,
                       !.low = adx_assign(adx_locals(frame)).low,
                       !.close = adx_assign(adx_locals(frame)).close]

-----------------------------------------------------------------------------
(* backend/strategy_engine.py: StrategyEngine.calculate_indicator and      *)
(* evaluate_condition.                                                     *)

\* Defaults of params.get in calculate_indicator.
SmaDefaultPeriod == 20
EmaDefaultPeriod == 20
RsiDefaultPeriod == 14
MacdDefaultFast == 12
MacdDefaultSlow == 26
MacdDefaultSignal == 9
AdxDefaultPeriod == 14

\* macd_data.get(params.get('line', 'macd'))
macd_get(macd_data, line) ==
    IF macd_data.exc # "" THEN RaiseRet(macd_data.exc)
    ELSE IF line \in {"macd", "signal", "histogram"}
         THEN SeriesRet(macd_data.lines[line])
    ELSE NoneRet

\* The indicator types whose branch starts with params.get(...), which
\* raises AttributeError when params is None.
TypesWithParams ==
    {"SMA", "EMA", "RSI", "MACD", "BOLLINGER_BANDS", "ATR", "STOCHASTIC", "ADX", "PRICE"}

\* The branches of BOLLINGER_BANDS, ATR and STOCHASTIC are not modelled
\* beyond their params.get.
calculate_indicator(frame, indicator_type, params) ==
    IF indicator_type = "VOLUME" THEN Column(frame, "volume")
    ELSE IF indicator_type \notin TypesWithParams THEN NoneRet
    ELSE IF params = None THEN RaiseRet("AttributeError")
    ELSE CASE indicator_type = "SMA" ->
                calculate_sma(frame, Get(params, "period", SmaDefaultPeriod))
           [] indicator_type = "EMA" ->
                calculate_ema(frame, Get(params, "period", EmaDefaultPeriod))
           [] indicator_type = "RSI" ->
                calculate_rsi(frame, Get(params, "period", RsiDefaultPeriod))
           [] indicator_type = "MACD" ->
                macd_get(calculate_macd(frame,
                                        Get(params, "fast", MacdDefaultFast),
                                        Get(params, "slow", MacdDefaultSlow),
                                        Get(params, "signal", MacdDefaultSignal)),
                         Get(params, "line", "macd"))
           [] indicator_type = "ADX" ->
                calculate_adx(frame, Get(params, "period", AdxDefaultPeriod))
           [] indicator_type = "PRICE" ->
                Column(frame, Get(params, "type", "close"))
           [] OTHER -> NoneRet

\* The caller's frame when calculate_indicator has returned or raised: of
\* the calculators only calculate_adx assigns into a Series.
frame_after_indicator(frame, indicator_type, params) ==
    IF indicator_type = "ADX" /\ params # None THEN frame_after_adx(frame)
    ELSE frame

\* What evaluate_condition gives back: a boolean, or an exception.
BoolRet(b) == [exc |-> "", val |-> b]
BoolRaise(e) == [exc |-> e, val |-> FALSE]

\* The tolerance of the == operator, 0.01.
Tolerance == R(1, 100)

\* NoLatest without the isna test of lines 151-153.
NoLatest_no_isna(indicator1_value) ==
    \/ indicator1_value.none
    \/ Len(indicator1_value.s) = 0

\* Lines 147-153: indicator 1 is None or empty, or its latest value is NaN.
NoLatest(indicator1_value) ==
    \/ indicator1_value.none
    \/ Len(indicator1_value.s) = 0
    \/ isna(ilocNeg(indicator1_value.s, 1))

\* Lines 161-172: the crossover operators, indicator2 being present.
CrossBranch(operator, indicator1_value, indicator2_value) ==
    IF indicator2_value.exc # "" THEN BoolRaise(indicator2_value.exc)
    ELSE IF indicator2_value.none THEN BoolRet(FALSE)
    ELSE IF operator = "CROSSES_ABOVE"
    THEN BoolRet(check_crossover(indicator1_value.s, indicator2_value.s))
    ELSE BoolRet(check_crossunder(indicator1_value.s, indicator2_value.s))

\* CompareValue giving the static value precedence over indicator2.
CompareValue_static_first(has_indicator2, indicator2_value, value) ==
    IF value # None
    THEN [exc |-> "", none |-> FALSE, nan |-> FALSE, v |-> value]
    ELSE IF ~has_indicator2
    THEN [exc |-> "", none |-> TRUE, nan |-> FALSE, v |-> NaN]
    ELSE IF indicator2_value.exc # ""
    THEN [exc |-> indicator2_value.exc, none |-> FALSE, nan |-> FALSE, v |-> NaN]
    ELSE IF indicator2_value.none
    THEN [exc |-> "", none |-> TRUE, nan |-> FALSE, v |-> NaN]
    ELSE IF isna(ilocNeg(indicator2_value.s, 1))
    THEN [exc |-> "", none |-> FALSE, nan |-> TRUE, v |-> NaN]
    ELSE [exc |-> "", none |-> FALSE, nan |-> FALSE,
          v |-> ilocNeg(indicator2_value.s, 1)]

\* CompareValue with an absent static value read as 0 (condition.value or 0).
CompareValue_none_is_zero(has_indicator2, indicator2_value, value) ==
    IF has_indicator2
    THEN IF indicator2_value.exc # ""
         THEN [exc |-> indicator2_value.exc, none |-> FALSE, nan |-> FALSE, v |-> NaN]
         ELSE IF indicator2_value.none
         THEN [exc |-> "", none |-> TRUE, nan |-> FALSE, v |-> NaN]
         ELSE IF isna(ilocNeg(indicator2_value.s, 1))
         THEN [exc |-> "", none |-> FALSE, nan |-> TRUE, v |-> NaN]
         ELSE [exc |-> "", none |-> FALSE, nan |-> FALSE,
               v |-> ilocNeg(indicator2_value.s, 1)]
    ELSE IF value = None
         THEN [exc |-> "", none |-> FALSE, nan |-> FALSE, v |-> Int2F(0)]
         ELSE [exc |-> "", none |-> FALSE, nan |-> FALSE, v |-> value]

\* Lines 176-185: compare_value, as [exc, none, nan, v]: indicator2's latest
\* value when the condition has an indicator2, else the static value.
CompareValue(has_indicator2, indicator2_value, value) ==
    IF has_indicator2
    THEN IF indicator2_value.exc # ""
         THEN [exc |-> indicator2_value.exc, none |-> FALSE, nan |-> FALSE, v |-> NaN]
         ELSE IF indicator2_value.none
         THEN [exc |-> "", none |-> TRUE, nan |-> FALSE, v |-> NaN]
         ELSE IF isna(ilocNeg(indicator2_value.s, 1))
         THEN [exc |-> "", none |-> FALSE, nan |-> TRUE, v |-> NaN]
         ELSE [exc |-> "", none |-> FALSE, nan |-> FALSE,
               v |-> ilocNeg(indicator2_value.s, 1)]
    ELSE IF value = None
         THEN [exc |-> "", none |-> TRUE, nan |-> FALSE, v |-> NaN]
         ELSE [exc |-> "", none |-> FALSE, nan |-> FALSE, v |-> value]

\* Compare with == as a difference of at most the tolerance.
Compare_inclusive(operator, indicator1_latest, compare_value) ==
    CASE operator = ">" -> FGt(indicator1_latest, compare_value)
      [] operator = "<" -> FLt(indicator1_latest, compare_value)
      [] operator = "==" ->
            FLe(FAbs(FSub(indicator1_latest, compare_value)), Tolerance)
      [] operator = ">=" -> FGe(indicator1_latest, compare_value)
      [] operator = "<=" -> FLe(indicator1_latest, compare_value)
      [] OTHER -> FALSE

\* Lines 191-200: the comparison.
Compare(operator, indicator1_latest, compare_value) ==
    CASE operator = ">" -> FGt(indicator1_latest, compare_value)
      [] operator = "<" -> FLt(indicator1_latest, compare_value)
      [] operator = "==" ->
            FLt(FAbs(FSub(indicator1_latest, compare_value)), Tolerance)
      [] operator = ">=" -> FGe(indicator1_latest, compare_value)
      [] operator = "<=" -> FLe(indicator1_latest, compare_value)
      [] OTHER -> FALSE

\* Lines 176-200: the comparison operators.
CompareBranch(operator, indicator1_latest, compare_value) ==
    IF compare_value.exc # "" THEN BoolRaise(compare_value.exc)
    ELSE IF compare_value.nan THEN BoolRet(FALSE)
    ELSE IF compare_value.none THEN BoolRet(FALSE)
    ELSE BoolRet(Compare(operator, indicator1_latest, compare_value.v))

\* Lines 147-202, indicator1_value being computed.
EvaluateWith(frame, cond, indicator1_value) ==
    IF indicator1_value.exc # "" THEN BoolRaise(indicator1_value.exc)
    ELSE IF NoLatest(indicator1_value) THEN BoolRet(FALSE)
    ELSE IF cond.operator \in {"CROSSES_ABOVE", "CROSSES_BELOW"}
    THEN IF cond.indicator2 = NoIndicator THEN BoolRet(FALSE)
         ELSE CrossBranch(cond.operator, indicator1_value,
                          calculate_indicator(frame, cond.indicator2,
                                              cond.indicator2_params))
    ELSE CompareBranch(cond.operator, ilocNeg(indicator1_value.s, 1),
                       CompareValue(cond.indicator2 # NoIndicator,
                                    calculate_indicator(frame, cond.indicator2,
                                                        cond.indicator2_params),
                                    cond.value))

evaluate_condition(frame, cond) ==
    EvaluateWith(frame, cond,
                 calculate_indicator(frame, cond.indicator1, cond.indicator1_params))

-----------------------------------------------------------------------------
(* backend/strategy_engine.py: StrategyEngine.evaluate_strategy.           *)

\* Python's any in the place of all.
RECURSIVE any(_)
any(bools) == IF bools = <<>> THEN FALSE ELSE Head(bools) \/ any(Tail(bools))

\* all that is false of the empty list ("some conditions, and all of them").
all_nonempty(bools) == bools # <<>> /\ \A i \in 1..Len(bools) : bools[i]

RECURSIVE all(_)
all(bools) == IF bools = <<>> THEN TRUE ELSE Head(bools) /\ all(Tail(bools))

\* What evaluate_strategy has built so far, or the exception that ended it.
\* indicator_values is the set of the dict's items <<i, k, v>>, for the key
\* "condition_{i}_indicator{k}".
Evaluating(condition_results, indicator_values) ==
    [exc |-> "", condition_results |-> condition_results,
     indicator_values |-> indicator_values]
EvaluationRaise(e) == [exc |-> e, condition_results |-> <<>>, indicator_values |-> {}]

\* Lines 217-224: the dict item of an indicator's latest value; none when
\* the indicator is absent, or its value is None or an empty Series.
DisplayItem(i, k, present, indicator_value) ==
    IF present /\ indicator_value.exc = "" /\ ~indicator_value.none
       /\ Len(indicator_value.s) > 0
    THEN {<<i, k, ilocNeg(indicator_value.s, 1)>>}
    ELSE {}

\* The exception of a computed indicator that the loop body lets through.
DisplayExc(present, indicator_value) ==
    IF present THEN indicator_value.exc ELSE ""

\* Lines 213-224, the condition's result and both indicators being computed.
LoopBodyWith(so_far, i, cond, result, indicator1_value, indicator2_value) ==
    IF result.exc # "" THEN EvaluationRaise(result.exc)
    ELSE IF DisplayExc(TRUE, indicator1_value) # ""
    THEN EvaluationRaise(indicator1_value.exc)
    ELSE IF DisplayExc(cond.indicator2 # NoIndicator, indicator2_value) # ""
    THEN EvaluationRaise(indicator2_value.exc)
    ELSE Evaluating(Append(so_far.condition_results, result.val),
                    so_far.indicator_values
                    \cup DisplayItem(i, 1, TRUE, indicator1_value)
                    \cup DisplayItem(i, 2, cond.indicator2 # NoIndicator,
                                     indicator2_value))

\* The body of the for loop, for condition number i (from 0).
LoopBody(frame, so_far, i, cond) ==
    LoopBodyWith(so_far, i, cond,
                 evaluate_condition(frame, cond),
                 calculate_indicator(frame, cond.indicator1, cond.indicator1_params),
                 calculate_indicator(frame, cond.indicator2, cond.indicator2_params))

\* The for loop from condition number i on; an exception ends it.
RECURSIVE Loop(_, _, _, _)
Loop(frame, conditions, i, so_far) ==
    IF so_far.exc # "" \/ i >= Len(conditions) THEN so_far
    ELSE Loop(frame, conditions, i + 1,
              LoopBody(frame, so_far, i, conditions[i + 1]))

\* Lines 226-227: the returned tuple, or the exception.
ReturnTuple(final) ==
    [exc |-> final.exc,
     all_met |-> final.exc = "" /\ all(final.condition_results),
     condition_results |-> final.condition_results,
     indicator_values |-> final.indicator_values]

evaluate_strategy(frame, strat) ==
    ReturnTuple(Loop(frame, strat.conditions, 0, Evaluating(<<>>, {})))

\* The caller's frame when evaluate_condition has returned or raised: after
\* the call for indicator 1 (line 145) and, when that gave a latest value
\* and the condition has an indicator 2, the call for indicator 2 (line 164
\* or 177).
frame_after_condition(frame, cond) ==
    IF \/ calculate_indicator(frame, cond.indicator1, cond.indicator1_params).exc # ""
       \/ NoLatest(calculate_indicator(frame, cond.indicator1, cond.indicator1_params))
       \/ cond.indicator2 = NoIndicator
    THEN frame_after_indicator(frame, cond.indicator1, cond.indicator1_params)
    ELSE frame_after_indicator(
             frame_after_indicator(frame, cond.indicator1, cond.indicator1_params),
             cond.indicator2, cond.indicator2_params)

\* The frame after the display calls of lines 217-224, made when
\* evaluate_condition did not raise.
frame_after_display(frame, cond) ==
    IF \/ calculate_indicator(frame, cond.indicator1, cond.indicator1_params).exc # ""
       \/ cond.indicator2 = NoIndicator
    THEN frame_after_indicator(frame, cond.indicator1, cond.indicator1_params)
    ELSE frame_after_indicator(
             frame_after_indicator(frame, cond.indicator1, cond.indicator1_params),
             cond.indicator2, cond.indicator2_params)

\* The frame after the body of the for loop for one condition.
frame_after_body(frame, cond) ==
    IF evaluate_condition(frame, cond).exc # ""
    THEN frame_after_condition(frame, cond)
    ELSE frame_after_display(frame_after_condition(frame, cond), cond)

\* The caller's frame when the for loop from condition number i on has
\* ended; an exception ends it.
RECURSIVE frame_after_loop(_, _, _)
frame_after_loop(frame, conditions, i) ==
    IF i >= Len(conditions) THEN frame
    ELSE IF LoopBody(frame, Evaluating(<<>>, {}), i, conditions[i + 1]).exc # ""
    THEN frame_after_body(frame, conditions[i + 1])
    ELSE frame_after_loop(frame_after_body(frame, conditions[i + 1]), conditions,
                          i + 1)

\* The caller's frame when evaluate_strategy has returned or raised.
frame_after_strategy(frame, strat) == frame_after_loop(frame, strat.conditions, 0)

-----------------------------------------------------------------------------
(* backend/strategy_engine.py: StrategyEngine.get_strategy and a pass of   *)
(* the for loop of scan_stocks.                                            *)

\* self.strategies.get(strategy_id)
get_strategy(strategy_id) ==
    IF strategy_id \in DOMAIN strategies THEN strategies[strategy_id] ELSE None

\* The StockScanResult of lines 251-259; display_name and timestamp are not
\* modelled.
StockScanResult(symbol, matched, conditions_met, current_price, indicator_values) ==
    [symbol |-> symbol, matched |-> matched, conditions_met |-> conditions_met,
     current_price |-> current_price, indicator_values |-> indicator_values]

\* TryAppend with an except clause that reports the symbol as not matched.
TryAppend_reports(so_far, symbol, nrows, ev, close) ==
    IF ev.exc # "" \/ (nrows > 0 /\ close.exc # "")
    THEN Append(so_far, StockScanResult(symbol, FALSE, <<>>, Int2F(0), {}))
    ELSE Append(so_far,
                StockScanResult(symbol, ev.all_met, ev.condition_results,
                                IF nrows > 0 THEN ilocNeg(close.s, 1) ELSE Int2F(0),
                                ev.indicator_values))

\* Lines 246-263, evaluate_strategy's outcome and data['close'] being computed:
\* the results list after the try block; an exception leaves it as it was.
\* current_price is float(data['close'].iloc[-1]) if len(data) > 0 else 0.0.
TryAppend(so_far, symbol, nrows, ev, close) ==
    IF ev.exc # "" THEN so_far
    ELSE IF nrows > 0 /\ close.exc # "" THEN so_far
    ELSE Append(so_far,
                StockScanResult(symbol, ev.all_met, ev.condition_results,
                                IF nrows > 0 THEN ilocNeg(close.s, 1) ELSE Int2F(0),
                                ev.indicator_values))

\* ScanItem without the len(data) == 0 test of line 242.
ScanItem_no_empty_test(so_far, strat, item) ==
    IF item.data = None THEN so_far
    ELSE TryAppend(so_far, item.symbol, item.data.nrows,
                   evaluate_strategy(item.data, strat), Column(item.data, "close"))

\* Lines 242-263: the results list after the loop's pass over one item.
ScanItem(so_far, strat, item) ==
    IF item.data = None THEN so_far
    ELSE IF item.data.nrows = 0 THEN so_far
    ELSE TryAppend(so_far, item.symbol, item.data.nrows,
                   evaluate_strategy(item.data, strat), Column(item.data, "close"))

-----------------------------------------------------------------------------
(* backend/preset_strategies.py: PresetStrategies.  Each scanner is        *)
(* modelled by the pass of its for loop over one item of the dict, as the  *)
(* results list after the pass.  The quotients of the scanners are          *)
(* quotients of Python floats (float(...) of a sample), which raise         *)
(* ZeroDivisionError on a zero divisor; the except clause of the loop body  *)
(* leaves the results list as it was.                                       *)

\* The windows, thresholds and row counts of the scanners.
SlopePeriods == 5
Ma44MinRows == 44
Ma44Window == 44
Ma44DiffPct == 3
Ma200MinRows == 200
Ma200Window == 200
CrossDiffPct == 1
EmaMinRows == 30
Ema10Span == 10
Ema30Span == 30
EmaDiffPct == R(5, 100)
DownDiffPct == 3
DownMaxSlope == 1
ZigZagBars == 30
MinRetrace == R(1, 10)
MagnetDiffPct == 1
TopCount == 20

\* A float a computation gave back, or the exception it raised.
FloatRet(v) == [exc |-> "", v |-> v]
FloatRaise(e) == [exc |-> e, v |-> NaN]

\* x / y of two Python floats.
PyDiv(x, y) ==
    IF y = Int2F(0) THEN FloatRaise("ZeroDivisionError") ELSE FloatRet(FDiv(x, y))

\* The least-squares slope of y over x = 0..periods-1 is
\* sum((x - mean(x)) * y) / sum((x - mean(x))^2); both sums are taken here
\* with the weights 2x - (periods - 1).
RECURSIVE SlopeNum(_, _, _)
SlopeNum(y, periods, x) ==
    IF x >= periods THEN Int2F(0)
    ELSE FAdd(FMul(Int2F(2 * x - (periods - 1)), y[x + 1]),
              SlopeNum(y, periods, x + 1))

RECURSIVE SlopeDen(_, _)
SlopeDen(periods, x) ==
    IF x >= periods THEN 0
    ELSE (2 * x - (periods - 1)) * (2 * x - (periods - 1)) + SlopeDen(periods, x + 1)

\* polyfit over x = periods-1..0: the slope of the series read backwards.
polyfit_backwards(y, periods) ==
    FNeg(FDiv(FMul(Int2F(2), SlopeNum(y, periods, 0)), Int2F(SlopeDen(periods, 0))))

\* np.polyfit(x, y, 1)[0]; NaN when a y is NaN.
polyfit(y, periods) ==
    FDiv(FMul(Int2F(2), SlopeNum(y, periods, 0)), Int2F(SlopeDen(periods, 0)))

\* Lines 17-20 of calculate_slope, last_n being taken.  On values some of
\* which are NaN the least-squares solution of np.polyfit is NaN.
slope_of(last_n, periods) ==
    IF periods = 0 \/ \A j \in 1..periods : isna(last_n[j])
    THEN FloatRet(Int2F(0))
    ELSE FloatRet(polyfit(last_n, periods))

\* calculate_slope of a Series of n values; series.tail(periods) is its last
\* periods values.
calculate_slope(series, n, periods) ==
    IF n < periods THEN FloatRet(Int2F(0))
    ELSE slope_of([j \in 1..periods |-> series[n - periods + j]], periods)

\* lo < x < hi
Between(lo, x, hi) == FLt(lo, x) /\ FLt(x, hi)

\* The test at the head of each loop body: data is None or has too few rows.
TooShort(frame, min_rows) ==
    IF frame = None THEN TRUE ELSE frame.nrows < min_rows

(* ma44_strategy *)

\* The conditions of lines 50-52 with the bounds of diff_ok included.
ma44_conditions_inclusive(slope, diff_pct, last_close, last_ma44) ==
    << FGt(slope, Int2F(0)),
       FLe(Int2F(-Ma44DiffPct), diff_pct) /\ FLe(diff_pct, Int2F(Ma44DiffPct)),
       FGt(last_close, last_ma44) >>

\* Lines 50-52: slope_ok, diff_ok, price_above_ma.
ma44_conditions(slope, diff_pct, last_close, last_ma44) ==
    << FGt(slope, Int2F(0)),
       Between(Int2F(-Ma44DiffPct), diff_pct, Int2F(Ma44DiffPct)),
       FGt(last_close, last_ma44) >>

\* ma44_append with matched taken from diff_ok and price_above_ma alone.
ma44_append_without_slope(so_far, symbol, conds, last_close, last_ma44, slope, diff_pct) ==
    Append(so_far,
           StockScanResult(symbol, conds[2] /\ conds[3], conds, last_close,
                           [ma44 |-> last_ma44, slope |-> slope, diff_pct |-> diff_pct]))

\* Lines 54-70.
ma44_append(so_far, symbol, conds, last_close, last_ma44, slope, diff_pct) ==
    Append(so_far,
           StockScanResult(symbol, conds[1] /\ conds[2] /\ conds[3], conds, last_close,
                           [ma44 |-> last_ma44, slope |-> slope, diff_pct |-> diff_pct]))

\* Lines 47-70, the quotient being computed.
ma44_with_diff(so_far, symbol, slope, last_close, last_ma44, quotient) ==
    IF quotient.exc # "" THEN so_far
    ELSE ma44_append(so_far, symbol,
                     ma44_conditions(slope, FMul(quotient.v, Int2F(100)),
                                     last_close, last_ma44),
                     last_close, last_ma44, slope, FMul(quotient.v, Int2F(100)))

\* Lines 44-70, the slope being computed.
ma44_with_slope(so_far, symbol, slope, last_close, last_ma44) ==
    IF slope.exc # "" THEN so_far
    ELSE ma44_with_diff(so_far, symbol, slope.v, last_close, last_ma44,
                        PyDiv(FSub(last_ma44, last_close), last_close))

\* Lines 41-70, close and ma44 being computed.
ma44_try(so_far, symbol, close, n, ma44) ==
    IF n < SlopePeriods \/ isna(ma44[n]) THEN so_far
    ELSE ma44_with_slope(so_far, symbol,
                         calculate_slope(ma44, n, SlopePeriods),
                         close[n], ma44[n])

\* Lines 34-73: the results list after the pass over one item.
ma44_item(so_far, item) ==
    IF TooShort(item.data, Ma44MinRows) THEN so_far
    ELSE IF Column(item.data, "close").exc # "" THEN so_far
    ELSE ma44_try(so_far, item.symbol, item.data.close, item.data.nrows,
                  rolling_mean(item.data.close, Ma44Window))

(* ma44_cross_ma200_strategy *)

\* Lines 104-122.
cross_append(so_far, symbol, last_close, last_ma44, last_ma200, diff_pct) ==
    Append(so_far,
           StockScanResult(symbol, FLt(diff_pct, Int2F(CrossDiffPct)),
                           <<FLt(diff_pct, Int2F(CrossDiffPct))>>, last_close,
                           [ma44 |-> last_ma44, ma200 |-> last_ma200,
                            diff_pct |-> diff_pct]))

\* Lines 101-122, the quotient being computed.
cross_with_diff(so_far, symbol, last_close, last_ma44, last_ma200, quotient) ==
    IF quotient.exc # "" THEN so_far
    ELSE cross_append(so_far, symbol, last_close, last_ma44, last_ma200,
                      FMul(FAbs(quotient.v), Int2F(100)))

\* Lines 95-122, close, ma44 and ma200 being computed.
cross_try(so_far, symbol, close, n, ma44, ma200) ==
    IF isna(ma44[n]) \/ isna(ma200[n]) THEN so_far
    ELSE cross_with_diff(so_far, symbol, close[n], ma44[n], ma200[n],
                         PyDiv(FSub(ma44[n], ma200[n]), ma44[n]))

\* Lines 87-125.
ma44_cross_ma200_item(so_far, item) ==
    IF TooShort(item.data, Ma200MinRows) THEN so_far
    ELSE IF Column(item.data, "close").exc # "" THEN so_far
    ELSE cross_try(so_far, item.symbol, item.data.close, item.data.nrows,
                   rolling_mean(item.data.close, Ma44Window),
                   rolling_mean(item.data.close, Ma200Window))

(* ema_crossover_strategy *)

\* Lines 156-174.
ema_append(so_far, symbol, last_close, last_ema10, last_ema30, diff_pct) ==
    Append(so_far,
           StockScanResult(symbol, FLe(diff_pct, EmaDiffPct),
                           <<FLe(diff_pct, EmaDiffPct)>>, last_close,
                           [ema10 |-> last_ema10, ema30 |-> last_ema30,
                            diff_pct |-> diff_pct]))

\* Lines 153-174, the quotient being computed.
ema_with_diff(so_far, symbol, last_close, last_ema10, last_ema30, quotient) ==
    IF quotient.exc # "" THEN so_far
    ELSE ema_append(so_far, symbol, last_close, last_ema10, last_ema30,
                    FMul(FAbs(quotient.v), Int2F(100)))

\* Lines 147-174, close, ema10 and ema30 being computed.
ema_try(so_far, symbol, close, n, ema10, ema30) ==
    IF isna(ema10[n]) \/ isna(ema30[n]) THEN so_far
    ELSE ema_with_diff(so_far, symbol, close[n], ema10[n], ema30[n],
                       PyDiv(FSub(ema10[n], ema30[n]), ema30[n]))

\* Lines 139-177.
ema_crossover_item(so_far, item) ==
    IF TooShort(item.data, EmaMinRows) THEN so_far
    ELSE IF Column(item.data, "close").exc # "" THEN so_far
    ELSE ema_try(so_far, item.symbol, item.data.close, item.data.nrows,
                 ewm_mean(item.data.close, Ema10Span),
                 ewm_mean(item.data.close, Ema30Span))

(* down_to_ma200_strategy *)

down_conditions(slope, diff_pct, last_close, last_ma200) ==
    << Between(Int2F(-DownDiffPct), diff_pct, Int2F(DownDiffPct)),
       FLt(slope, Int2F(DownMaxSlope)),
       FGt(last_close, last_ma200) >>

\* Lines 213-229.
down_append(so_far, symbol, conds, last_close, last_ma200, slope, diff_pct) ==
    Append(so_far,
           StockScanResult(symbol, conds[1] /\ conds[2] /\ conds[3], conds, last_close,
                           [ma200 |-> last_ma200, slope |-> slope,
                            diff_pct |-> diff_pct]))

\* Lines 206-229, the quotient being computed.
down_with_diff(so_far, symbol, slope, last_close, last_ma200, quotient) ==
    IF quotient.exc # "" THEN so_far
    ELSE down_append(so_far, symbol,
                     down_conditions(slope, FMul(quotient.v, Int2F(100)),
                                     last_close, last_ma200),
                     last_close, last_ma200, slope, FMul(quotient.v, Int2F(100)))

\* Lines 203-229, the slope being computed.
down_with_slope(so_far, symbol, slope, last_close, last_ma200) ==
    IF slope.exc # "" THEN so_far
    ELSE down_with_diff(so_far, symbol, slope.v, last_close, last_ma200,
                        PyDiv(FSub(last_ma200, last_close), last_close))

\* Lines 200-229, close and ma200 being computed.
down_try(so_far, symbol, close, n, ma200) ==
    IF isna(ma200[n]) THEN so_far
    ELSE down_with_slope(so_far, symbol,
                         calculate_slope(ma200, n, SlopePeriods),
                         close[n], ma200[n])

\* Lines 193-232.
down_to_ma200_item(so_far, item) ==
    IF TooShort(item.data, Ma200MinRows) THEN so_far
    ELSE IF Column(item.data, "close").exc # "" THEN so_far
    ELSE down_try(so_far, item.symbol, item.data.close, item.data.nrows,
                  rolling_mean(item.data.close, Ma200Window))

(* create_zigzag_points and magnet_effect_strategy *)

\* Line 249: the sample x continues the run the locals describe.
Continues(x, cur_val, cur_dir) ==
    FGe(FMul(FSub(x, cur_val), Int2F(cur_dir)), Int2F(0))

\* retrace_prc > min_retrace.
Retraces_strictly(x, cur_val, min_retrace) ==
    FGt(FAbs(FMul(FDiv(FSub(x, cur_val), cur_val), Int2F(100))), min_retrace)

\* Lines 253-254: x is at least min_retrace percent away from cur_val.  The
\* samples being numpy floats, a zero cur_val gives inf or NaN, not an
\* exception.
Retraces(x, cur_val, min_retrace) ==
    FGe(FAbs(FMul(FDiv(FSub(x, cur_val), cur_val), Int2F(100))), min_retrace)

\* Lines 248-258: the for loop from position i (from 0) on, with the locals
\* cur_val, cur_pos, cur_dir and result_data; the rows of result_data at
\* its end.
RECURSIVE zigzag_loop(_, _, _, _, _, _, _)
zigzag_loop(series, min_retrace, i, cur_val, cur_pos, cur_dir, result_data) ==
    IF i >= Len(series) THEN result_data
    ELSE IF Continues(series[i + 1], cur_val, cur_dir)
    THEN zigzag_loop(series, min_retrace, i + 1, series[i + 1], i, cur_dir,
                     result_data)
    ELSE IF Retraces(series[i + 1], cur_val, min_retrace)
    THEN zigzag_loop(series, min_retrace, i + 1, series[i + 1], i, -cur_dir,
                     Append(result_data,
                            [index |-> cur_pos, Value |-> cur_val, Dir |-> cur_dir]))
    ELSE zigzag_loop(series, min_retrace, i + 1, cur_val, cur_pos, cur_dir,
                     result_data)

\* The rows of the returned DataFrame, in order.
create_zigzag_points(series, min_retrace) ==
    IF Len(series) = 0 THEN <<>>
    ELSE zigzag_loop(series, min_retrace, 0, series[1], 0, 1, <<>>)

\* close.iloc[-k:]: the last k samples, all of them when there are fewer
\* (and, -0 being 0, when k = 0).
iloc_last(close, k) ==
    IF k = 0 \/ Len(close) <= k THEN close
    ELSE SubSeq(close, Len(close) - k + 1, Len(close))

\* Lines 289-293: the resistance, the largest Value of the rows of Dir 1, or
\* None.
resistance_of(zigzag) ==
    IF Len(zigzag) > 0 /\ \E j \in 1..Len(zigzag) : zigzag[j].Dir = 1
    THEN CHOOSE v \in {zigzag[j].Value : j \in {k \in 1..Len(zigzag) : zigzag[k].Dir = 1}} :
            \A j \in 1..Len(zigzag) : zigzag[j].Dir = 1 => FLe(zigzag[j].Value, v)
    ELSE None

magnet_conditions(slope, last_close, last_ma44, res_diff_pct) ==
    << FGt(slope, Int2F(0)),
       FGt(last_close, last_ma44),
       Between(Int2F(-MagnetDiffPct), res_diff_pct, Int2F(MagnetDiffPct)) >>

\* Lines 308-325.
magnet_append(so_far, symbol, conds, last_close, last_ma44, slope, resistance, res_diff_pct) ==
    Append(so_far,
           StockScanResult(symbol, conds[1] /\ conds[2] /\ conds[3], conds, last_close,
                           [ma44 |-> last_ma44, ma200_slope |-> slope,
                            resistance |-> resistance,
                            res_diff_pct |-> res_diff_pct]))

\* Lines 301-325, the quotient being computed.
magnet_with_diff(so_far, symbol, slope, last_close, last_ma44, resistance, quotient) ==
    IF quotient.exc # "" THEN so_far
    ELSE magnet_append(so_far, symbol,
                       magnet_conditions(slope, last_close, last_ma44,
                                         FMul(quotient.v, Int2F(100))),
                       last_close, last_ma44, slope, resistance,
                       FMul(quotient.v, Int2F(100)))

\* Lines 298-325, the slope being computed.
magnet_with_slope(so_far, symbol, slope, last_close, last_ma44, resistance) ==
    IF slope.exc # "" THEN so_far
    ELSE magnet_with_diff(so_far, symbol, slope.v, last_close, last_ma44, resistance,
                          PyDiv(FSub(resistance, last_close), last_close))

\* magnet_with_resistance with resistance = None set once before the loop: an
\* instrument without a peak takes the resistance of the result before it.
magnet_with_resistance_stale(so_far, symbol, close, n, ma44, ma200, resistance) ==
    IF resistance = None /\ so_far = <<>> THEN so_far
    ELSE magnet_with_slope(so_far, symbol,
                           calculate_slope(ma200, n, SlopePeriods),
                           close[n], ma44[n],
                           IF resistance = None
                           THEN so_far[Len(so_far)].indicator_values.resistance
                           ELSE resistance)

\* Lines 295-325, the resistance being computed.
magnet_with_resistance(so_far, symbol, close, n, ma44, ma200, resistance) ==
    IF resistance = None THEN so_far
    ELSE magnet_with_slope(so_far, symbol,
                           calculate_slope(ma200, n, SlopePeriods),
                           close[n], ma44[n], resistance)

\* magnet_try reporting an instrument without a peak at a resistance of 0.
magnet_try_unskipped(so_far, symbol, close, n, ma44, ma200) ==
    IF isna(ma44[n]) \/ isna(ma200[n]) THEN so_far
    ELSE magnet_with_slope(so_far, symbol,
                           calculate_slope(ma200, n, SlopePeriods),
                           close[n], ma44[n],
                           IF resistance_of(create_zigzag_points(
                                  iloc_last(close, ZigZagBars), MinRetrace)) = None
                           THEN Int2F(0)
                           ELSE resistance_of(create_zigzag_points(
                                    iloc_last(close, ZigZagBars), MinRetrace)))

\* Lines 282-325, close, ma44 and ma200 being computed.
magnet_try(so_far, symbol, close, n, ma44, ma200) ==
    IF isna(ma44[n]) \/ isna(ma200[n]) THEN so_far
    ELSE magnet_with_resistance(so_far, symbol, close, n, ma44, ma200,
                                resistance_of(create_zigzag_points(
                                    iloc_last(close, ZigZagBars), MinRetrace)))

\* Lines 274-328.
magnet_effect_item(so_far, item) ==
    IF TooShort(item.data, Ma200MinRows) THEN so_far
    ELSE IF Column(item.data, "close").exc # "" THEN so_far
    ELSE magnet_try(so_far, item.symbol, item.data.close, item.data.nrows,
                    rolling_mean(item.data.close, Ma44Window),
                    rolling_mean(item.data.close, Ma200Window))

(* top_gainers_strategy and top_losers_strategy *)

\* Lines 353-368 (401-416), the quotient being computed.
top_with_change(so_far, symbol, end_price, days, quotient) ==
    IF quotient.exc # "" THEN so_far
    ELSE Append(so_far,
                StockScanResult(symbol, FALSE, <<>>, end_price,
                                [change_pct |-> FMul(quotient.v, Int2F(100)),
                                 days |-> days]))

\* Lines 348-368 (396-416), recent_close being taken; recent_close.iloc[0] of
\* an empty Series raises IndexError.
top_try(so_far, symbol, recent_close, days) ==
    IF Len(recent_close) < days THEN so_far
    ELSE IF Len(recent_close) = 0 THEN so_far
    ELSE top_with_change(so_far, symbol, ilocNeg(recent_close, 1), days,
                         PyDiv(FSub(ilocNeg(recent_close, 1), recent_close[1]),
                               recent_close[1]))

\* Lines 341-371.
top_gainers_item(so_far, item, days) ==
    IF TooShort(item.data, days) THEN so_far
    ELSE IF Column(item.data, "close").exc # "" THEN so_far
    ELSE top_try(so_far, item.symbol, iloc_last(item.data.close, days), days)

\* Lines 389-419.
top_losers_item(so_far, item, days) ==
    IF TooShort(item.data, days) THEN so_far
    ELSE IF Column(item.data, "close").exc # "" THEN so_far
    ELSE top_try(so_far, item.symbol, iloc_last(item.data.close, days), days)

\* The key of the sorts of lines 374 and 422.
change_pct(result) == result.indicator_values.change_pct

\* result goes before other in the sorted list: by its key alone (the sort is
\* stable).
GoesBefore(result, other, reverse) ==
    IF reverse THEN FGt(change_pct(result), change_pct(other))
    ELSE FLt(change_pct(result), change_pct(other))

\* sorted with result put in: behind the results that it does not go before.
insort(sorted, result, reverse) ==
    IF \E j \in 1..Len(sorted) : GoesBefore(result, sorted[j], reverse)
    THEN SubSeq(sorted, 1,
                (CHOOSE j \in 1..Len(sorted) :
                    /\ GoesBefore(result, sorted[j], reverse)
                    /\ \A k \in 1..(j - 1) : ~GoesBefore(result, sorted[k], reverse))
                - 1)
         \o <<result>>
         \o SubSeq(sorted,
                   CHOOSE j \in 1..Len(sorted) :
                    /\ GoesBefore(result, sorted[j], reverse)
                    /\ \A k \in 1..(j - 1) : ~GoesBefore(result, sorted[k], reverse),
                   Len(sorted))
    ELSE Append(sorted, result)

\* list.sort left out: the results stay in the order of the dict.
sort_by_change_unsorted(results_list, reverse) == results_list

\* results.sort(key=lambda x: x.indicator_values['change_pct'], reverse=...)
RECURSIVE sort_by_change(_, _)
sort_by_change(results_list, reverse) ==
    IF results_list = <<>> THEN <<>>
    ELSE insort(sort_by_change(SubSeq(results_list, 1, Len(results_list) - 1), reverse),
                results_list[Len(results_list)], reverse)

\* Lines 375-376 (423-424): the first TopCount results are marked matched.
mark_top(sorted) ==
    [i \in 1..Len(sorted) |->
        IF i <= TopCount THEN [sorted[i] EXCEPT !.matched = TRUE] ELSE sorted[i]]

(* The scanners, by the name of their PresetStrategyType. *)

PresetStrategyType ==
    {"MA44", "MA44_CROSS_MA200", "EMA_CROSSOVER", "DOWN_TO_MA200", "MAGNET_EFFECT",
     "TOP_GAINERS", "TOP_LOSERS"}

\* The results list after the pass of the called scanner's loop over one item.
PresetItem(call, so_far, item) ==
    CASE call.name = "MA44" -> ma44_item(so_far, item)
      [] call.name = "MA44_CROSS_MA200" -> ma44_cross_ma200_item(so_far, item)
      [] call.name = "EMA_CROSSOVER" -> ema_crossover_item(so_far, item)
      [] call.name = "DOWN_TO_MA200" -> down_to_ma200_item(so_far, item)
      [] call.name = "MAGNET_EFFECT" -> magnet_effect_item(so_far, item)
      [] call.name = "TOP_GAINERS" -> top_gainers_item(so_far, item, call.days)
      [] call.name = "TOP_LOSERS" -> top_losers_item(so_far, item, call.days)

\* What the called scanner does to its results list after the loop.
PresetFinal(call, results_list) ==
    CASE call.name = "TOP_GAINERS" -> mark_top(sort_by_change(results_list, TRUE))
      [] call.name = "TOP_LOSERS" -> mark_top(sort_by_change(results_list, FALSE))
      [] OTHER -> results_list

-----------------------------------------------------------------------------
(* backend/main.py: the ranking pass of the two scan endpoints,            *)
(* results.sort(key=lambda x: x.matched, reverse=True).  list.sort is      *)
(* stable, also with reverse=True: results of equal key keep their order.  *)

\* sorted with result put in: before the first result of a smaller key (an
\* unmatched one, when result is matched), else at the end.
insort_matched(sorted, result) ==
    IF result.matched /\ \E j \in 1..Len(sorted) : ~sorted[j].matched
    THEN SubSeq(sorted, 1,
                (CHOOSE j \in 1..Len(sorted) :
                    /\ ~sorted[j].matched
                    /\ \A k \in 1..(j - 1) : sorted[k].matched)
                - 1)
         \o <<result>>
         \o SubSeq(sorted,
                   CHOOSE j \in 1..Len(sorted) :
                    /\ ~sorted[j].matched
                    /\ \A k \in 1..(j - 1) : sorted[k].matched,
                   Len(sorted))
    ELSE Append(sorted, result)

\* sorted(results, key=lambda x: x.matched)[::-1]: the ascending sort, read
\* backwards.
RECURSIVE sort_matched_first_backwards(_)
sort_matched_first_backwards(results_list) ==
    IF results_list = <<>> THEN <<>>
    ELSE insort_matched(sort_matched_first_backwards(Tail(results_list)),
                        Head(results_list))

\* Lines 297 and 387.
RECURSIVE sort_matched_first(_)
sort_matched_first(results_list) ==
    IF results_list = <<>> THEN <<>>
    ELSE insort_matched(sort_matched_first(SubSeq(results_list, 1,
                                                  Len(results_list) - 1)),
                        results_list[Len(results_list)])

-----------------------------------------------------------------------------
(* The inputs the specifications draw from.                                *)

SeqsUpTo(S, n) == UNION {[1..m -> S] : m \in 0..n}

\* Close prices: 1.000, 1.005, 1.010, ...
Prices == {R(200 + k, 200) : k \in 0..MaxTick}

\* Frames with a close column of up to MaxLen prices (the empty frame
\* included), and a frame whose close column is missing.
Frames == {Frame(c) : c \in SeqsUpTo(Prices, MaxLen)} \cup {FrameNoClose(1)}

\* The empty parameter dict {}.
EmptyDict == [k \in {} |-> 0]

\* Indicators with their parameter dicts.  The MACD spans are small ones (a span
\* of 1 is no smoothing, a span of 3 is alpha = 1/2); its line "bogus" is a
\* selector that calculate_macd's dict does not have.
IndicatorSpecs ==
    { [type |-> "PRICE", params |-> EmptyDict],
      [type |-> "SMA", params |-> [period |-> 2]],
      [type |-> "SMA", params |-> EmptyDict],
      [type |-> "RSI", params |-> [period |-> 2]],
      [type |-> "RSI", params |-> [period |-> 14]],
      [type |-> "MACD", params |-> [fast |-> 1, slow |-> 3, signal |-> 1,
                                    line |-> "macd"]],
      [type |-> "MACD", params |-> [fast |-> 1, slow |-> 3, signal |-> 1,
                                    line |-> "bogus"]] }

\* indicator2 with its parameters: absent; given (a price, a rolling mean, an
\* RSI(14) that is NaN on these frames, a MACD line that is None); or given with
\* indicator2_params left at its default None.
Indicator2Specs ==
    { [type |-> NoIndicator, params |-> None],
      [type |-> "PRICE", params |-> EmptyDict],
      [type |-> "SMA", params |-> [period |-> 2]],
      [type |-> "RSI", params |-> [period |-> 14]],
      [type |-> "MACD", params |-> [fast |-> 1, slow |-> 3, signal |-> 1,
                                    line |-> "bogus"]],
      [type |-> "SMA", params |-> None] }

OperatorType == {">", "<", "==", ">=", "<=", "CROSSES_ABOVE", "CROSSES_BELOW"}

\* Static values: absent, a price, or 50 (an RSI level).
StaticValues == {None} \cup Prices \cup {Int2F(50)}

ConditionModel(i1, op, i2, v) ==
    [indicator1 |-> i1.type, indicator1_params |-> i1.params, operator |-> op,
     indicator2 |-> i2.type, indicator2_params |-> i2.params, value |-> v]

Conditions ==
    {ConditionModel(i1, op, i2, v) :
        i1 \in IndicatorSpecs, op \in OperatorType,
        i2 \in Indicator2Specs, v \in StaticValues}

\* Samples of the series handed to the crossover detectors.
CrossVals == {Int2F(k) : k \in 1..CrossMaxVal} \cup {NaN}

\* The conditions strategies are built from: a static comparison, a
\* comparison of two indicators, a crossover, and a condition whose
\* indicator2_params was left at None.
PriceSpec == [type |-> "PRICE", params |-> EmptyDict]
Sma2Spec == [type |-> "SMA", params |-> [period |-> 2]]
NoIndicatorSpec == [type |-> NoIndicator, params |-> None]
StrategyConditions ==
    { ConditionModel(PriceSpec, ">", NoIndicatorSpec, R(201, 200)),
      ConditionModel(Sma2Spec, "<=", PriceSpec, None),
      ConditionModel(PriceSpec, "CROSSES_ABOVE", Sma2Spec, None),
      ConditionModel([type |-> "RSI", params |-> [period |-> 14]], ">",
                     [type |-> "SMA", params |-> None], Int2F(50)) }

StrategyModel(id, conditions) == [id |-> id, conditions |-> conditions]

Strategies == {StrategyModel("s1", cs) : cs \in SeqsUpTo(StrategyConditions, MaxConds)}

\* The values of scan_stocks' dict: None, an empty frame, a frame without its
\* close column, and frames of 1..ScanMaxLen closes of 1.00 or 1.01.
ScanFrames ==
    {None, FrameNoClose(1)}
    \cup {Frame(c) : c \in SeqsUpTo({R(200, 200), R(202, 200)}, ScanMaxLen)}

Symbols == {"A", "B"}

\* The dicts handed to scan_stocks, as their items in order: no key twice.
ScanDicts ==
    {d \in SeqsUpTo([symbol : Symbols, data : ScanFrames], Cardinality(Symbols)) :
        \A i, j \in 1..Len(d) : i # j => d[i].symbol # d[j].symbol}

\* n closes: base up to the last Len(ending) bars, which are those of ending.
Closes(n, base, ending) ==
    [i \in 1..n |->
        IF i <= n - Len(ending) THEN base ELSE ending[i - (n - Len(ending))]]

\* k closes of v.
Run(k, v) == [i \in 1..k |-> v]

\* Frames that make a scanner fault or skip whatever its rule: None, a frame
\* without its close column, and a frame whose closes are all 0 (a zero divisor).
FaultyFrames ==
    { None,
      FrameNoClose(Ma200MinRows + MaxExtra),
      Frame(Closes(Ma200MinRows + MaxExtra, Int2F(0), <<>>)) }

\* n closes that rise from start by step a bar.
Rising(n, start, step) == [i \in 1..n |-> Int2F(start + (i - 1) * step)]

\* Frames for ma44_strategy: one bar short of 44 rows; 44 rows; 44 + MaxExtra
\* rows that are flat, end on a rise or on a fall, or end at a close that is
\* exactly 3% above or 3% below the 44-bar mean; and closes that rise by a
\* constant step, 44 + MaxExtra of them from 10 by 2, and the 50 closes
\* 100..149.
Ma44Frames ==
    { Frame(Rising(Ma44MinRows + MaxExtra, 10, 2)),
      Frame(Rising(50, 100, 1)),
      Frame(Closes(Ma44MinRows - 1, Int2F(100), <<Int2F(101)>>)),
      Frame(Closes(Ma44MinRows, Int2F(100), <<Int2F(101)>>)),
      Frame(Closes(Ma44MinRows + MaxExtra, Int2F(100), <<>>)),
      Frame(Closes(Ma44MinRows + MaxExtra, Int2F(100), <<Int2F(101)>>)),
      Frame(Closes(Ma44MinRows + MaxExtra, Int2F(100), <<Int2F(99)>>)),
      Frame(Closes(Ma44MinRows + MaxExtra, Int2F(100), <<Int2F(120)>>)),
      Frame(Closes(Ma44MinRows + MaxExtra, Int2F(4168), <<Int2F(4300)>>)),
      Frame(Closes(Ma44MinRows + MaxExtra, Int2F(4432), <<Int2F(4300)>>)) }

\* Frames for ma44_cross_ma200_strategy: 199 rows; 200 flat rows; rows whose
\* last 44 closes put the 44-bar mean exactly 1%, and far more, above the
\* 200-bar mean.
CrossFrames ==
    { Frame(Closes(Ma200MinRows - 1, Int2F(100), <<>>)),
      Frame(Closes(Ma200MinRows, Int2F(100), <<>>)),
      Frame(Closes(Ma200MinRows, Int2F(77), Run(Ma44Window, Int2F(78)))),
      Frame(Closes(Ma200MinRows + MaxExtra, Int2F(100), Run(Ma44Window, Int2F(110)))) }

\* Frames for ema_crossover_strategy: 29 rows; 30 flat rows; rows ending on a
\* rise.
EmaFrames ==
    { Frame(Closes(EmaMinRows - 1, Int2F(100), <<>>)),
      Frame(Closes(EmaMinRows, Int2F(100), <<>>)),
      Frame(Closes(EmaMinRows + MaxExtra, Int2F(100), <<Int2F(101)>>)) }

\* Frames for down_to_ma200_strategy: 199 rows; 200 rows; 200 + MaxExtra rows
\* that are flat, or end on a small or a large rise.
DownFrames ==
    { Frame(Closes(Ma200MinRows - 1, Int2F(100), <<Int2F(101)>>)),
      Frame(Closes(Ma200MinRows, Int2F(100), <<Int2F(101)>>)),
      Frame(Closes(Ma200MinRows + MaxExtra, Int2F(100), <<>>)),
      Frame(Closes(Ma200MinRows + MaxExtra, Int2F(100), <<Int2F(101)>>)),
      Frame(Closes(Ma200MinRows + MaxExtra, Int2F(100), <<Int2F(120)>>)) }

\* Frames for magnet_effect_strategy: 199 rows; 200 rows ending just under a
\* peak; 200 + MaxExtra rows that are flat (no peak), that only rise (no peak),
\* that end just under a peak, and that end just under a peak lower than an
\* earlier one.
MagnetFrames ==
    { Frame(Closes(Ma200MinRows - 1, Int2F(100), <<Int2F(110), R(219, 2)>>)),
      Frame(Closes(Ma200MinRows, Int2F(100), <<Int2F(110), R(219, 2)>>)),
      Frame(Closes(Ma200MinRows + MaxExtra, Int2F(100), <<>>)),
      Frame(Closes(Ma200MinRows + MaxExtra, Int2F(100), <<Int2F(105), Int2F(110)>>)),
      Frame(Closes(Ma200MinRows + MaxExtra, Int2F(100), <<Int2F(110), R(219, 2)>>)),
      Frame(Closes(Ma200MinRows + MaxExtra, Int2F(100),
                   <<Int2F(112), Int2F(100), Int2F(110), R(219, 2)>>)) }

\* Frames for the top gainers and losers: up to MaxDays + 1 closes of 100 or 110.
TopFrames ==
    {Frame(c) : c \in SeqsUpTo({Int2F(100), Int2F(110)}, MaxDays + 1)}

AllZeroCloses(closes) == \A i \in 1..Len(closes) : closes[i] = Int2F(0)

\* The dict whose values are the frames of a sequence, with the keys 1, 2, ...
\* in this order.
DictOf(frames) == [k \in 1..Len(frames) |-> [symbol |-> k, data |-> frames[k]]]

\* The dicts of up to two frames of a collection or faulty.
SmallDicts(frames) == {DictOf(fs) : fs \in SeqsUpTo(frames \cup FaultyFrames, 2)}

\* The frame of key k in a dict of n instruments whose changes over the last
\* two bars follow a pattern: rising with k, falling with k, one of three
\* values in turn, or the same for all.
PatternChange(pattern, k) ==
    CASE pattern = "rising" -> k
      [] pattern = "falling" -> -k
      [] pattern = "ties" -> k % 3
      [] pattern = "equal" -> 0

TopPatterns == {"rising", "falling", "ties", "equal"}

\* The dicts of up to MaxBatch two-bar frames that follow a pattern, one of
\* them (number faulty, when not 0) being without its close column.
PatternDicts ==
    { [k \in 1..n |->
         [symbol |-> k,
          data |-> IF k = faulty THEN FrameNoClose(2)
                   ELSE Frame(<<Int2F(100), Int2F(100 + PatternChange(pattern, k))>>)]] :
        n \in (TopCount - 1)..MaxBatch, faulty \in {0, 1, TopCount},
        pattern \in TopPatterns }

\* The dicts a scanner is called with.
PresetDicts(name) ==
    CASE name = "MA44" -> SmallDicts(Ma44Frames)
      [] name = "MA44_CROSS_MA200" -> SmallDicts(CrossFrames)
      [] name = "EMA_CROSSOVER" -> SmallDicts(EmaFrames)
      [] name = "DOWN_TO_MA200" -> SmallDicts(DownFrames)
      [] name = "MAGNET_EFFECT" -> SmallDicts(MagnetFrames)
      [] name \in {"TOP_GAINERS", "TOP_LOSERS"} ->
            SmallDicts(TopFrames) \cup PatternDicts

\* The calls of the scanners; days is the argument of the top gainers and
\* losers, and 0 for a scanner that has no such argument.
PresetCalls ==
    {[name |-> name, days |-> 0] :
        name \in PresetStrategyType \ {"TOP_GAINERS", "TOP_LOSERS"}}
    \cup {[name |-> name, days |-> days] :
            name \in {"TOP_GAINERS", "TOP_LOSERS"}, days \in 1..MaxDays}

-----------------------------------------------------------------------------
(* What the variables of a specification that does not use them hold.      *)

crossVars == <<crossA, crossB, crossed>>
condVars == <<condition, outcome>>
stratVars == <<strategy, evaluation>>
scanVars == <<strategies, stock_data_dict, pc, scanned, pending, results, returned>>
presetVars == <<preset>>
indVars == <<given_period, sma, rsi>>
callVars == <<response, zz, now, reply, history>>

NotEvaluated ==
    [done |-> FALSE, exc |-> "", all_met |-> FALSE, condition_results |-> <<>>,
     indicator_values |-> {}]

IdleCross == crossA = <<>> /\ crossB = <<>> /\ crossed = [above |-> FALSE, below |-> FALSE, belowSwapped |-> FALSE]
IdleData == data = Frame(<<>>)
IdleCond ==
    /\ condition = ConditionModel(PriceSpec, ">", NoIndicatorSpec, None)
    /\ outcome = [done |-> FALSE, exc |-> "", val |-> FALSE]
IdleStrategy ==
    /\ strategy = StrategyModel("s1", <<>>)
    /\ evaluation = NotEvaluated
IdleScan ==
    /\ strategies = [id \in {} |-> None]
    /\ stock_data_dict = <<>>
    /\ pc = "idle"
    /\ scanned = None
    /\ pending = <<>>
    /\ results = <<>>
    /\ returned = <<>>
IdlePreset == preset = None
IdleIndicator == given_period = 1 /\ sma = None /\ rsi = None
IdleCalls ==
    /\ response = None
    /\ zz = None
    /\ now = 0
    /\ reply = None
    /\ history = <<>>

-----------------------------------------------------------------------------
(* SpecCross: check_crossover and check_crossunder on two series whose     *)
(* history is rewritten while the detectors are re-run.                    *)

Detect(a, b) ==
    [above |-> check_crossover(a, b),
     below |-> check_crossunder(a, b),
     belowSwapped |-> check_crossunder(b, a)]

InitCross ==
    /\ crossA \in SeqsUpTo(CrossVals, CrossMaxLen)
    /\ crossB \in SeqsUpTo(CrossVals, CrossMaxLen)
    /\ crossed = Detect(crossA, crossB)
    /\ IdleData /\ IdleCond /\ IdleStrategy /\ IdleScan
    /\ IdlePreset /\ IdleIndicator /\ IdleCalls

\* One of the series is given an older sample in front.
OlderSample(v) ==
    /\ \/ Len(crossA) < CrossMaxLen /\ crossA' = <<v>> \o crossA /\ crossB' = crossB
       \/ Len(crossB) < CrossMaxLen /\ crossB' = <<v>> \o crossB /\ crossA' = crossA
    /\ crossed' = Detect(crossA', crossB')
    /\ UNCHANGED <<data, condVars, stratVars, scanVars, presetVars, indVars, callVars>>

\* One of the series loses its oldest sample.
DropOldest ==
    /\ \/ Len(crossA) > 0 /\ crossA' = Tail(crossA) /\ crossB' = crossB
       \/ Len(crossB) > 0 /\ crossB' = Tail(crossB) /\ crossA' = crossA
    /\ crossed' = Detect(crossA', crossB')
    /\ UNCHANGED <<data, condVars, stratVars, scanVars, presetVars, indVars, callVars>>

NextCross == (\E v \in CrossVals : OlderSample(v)) \/ DropOldest

SpecCross == InitCross /\ [][NextCross]_vars

-----------------------------------------------------------------------------
(* SpecCond: evaluate_condition on one frame and one condition.            *)

InitCond ==
    /\ data \in Frames
    /\ condition \in Conditions
    /\ outcome = [done |-> FALSE, exc |-> "", val |-> FALSE]
    /\ IdleCross /\ IdleStrategy /\ IdleScan
    /\ IdlePreset /\ IdleIndicator /\ IdleCalls

\* The record of a call of evaluate_condition that ended as ret.
Outcome(ret) == [done |-> TRUE, exc |-> ret.exc, val |-> ret.val]

EvaluateCondition ==
    /\ ~outcome.done
    /\ outcome' = Outcome(evaluate_condition(data, condition))
    /\ UNCHANGED <<presetVars, indVars, callVars, crossVars, data, condition, stratVars, scanVars>>

NextCond == EvaluateCondition

SpecCond == InitCond /\ [][NextCond]_vars

-----------------------------------------------------------------------------
(* SpecStrategy: evaluate_strategy on one frame and one strategy.          *)

InitStrategy ==
    /\ data \in Frames
    /\ strategy \in Strategies
    /\ evaluation = NotEvaluated
    /\ IdleCross /\ IdleCond /\ IdleScan
    /\ IdlePreset /\ IdleIndicator /\ IdleCalls

\* The record of a call of evaluate_strategy that returned tuple.
Evaluated(tuple) ==
    [done |-> TRUE, exc |-> tuple.exc, all_met |-> tuple.all_met,
     condition_results |-> tuple.condition_results,
     indicator_values |-> tuple.indicator_values]

EvaluateStrategy ==
    /\ ~evaluation.done
    /\ evaluation' = Evaluated(evaluate_strategy(data, strategy))
    /\ UNCHANGED <<presetVars, indVars, callVars, crossVars, data, condVars, strategy, scanVars>>

NextStrategy == EvaluateStrategy

SpecStrategy == InitStrategy /\ [][NextStrategy]_vars

-----------------------------------------------------------------------------
(* Spec: StrategyEngine.scan_stocks over a dict of frames, one pass of its *)
(* for loop at a time.                                                     *)

StrategyIds == {"s1", "s2"}

Init ==
    /\ strategies \in {[id \in {s.id} |-> s] : s \in Strategies}
    /\ stock_data_dict \in ScanDicts
    /\ pc = "idle"
    /\ scanned = None
    /\ pending = <<>>
    /\ results = <<>>
    /\ returned = <<>>
    /\ IdleCross /\ IdleData /\ IdleCond /\ IdleStrategy
    /\ IdlePreset /\ IdleIndicator /\ IdleCalls

\* ScanStart with self.strategies[strategy_id] as the lookup: an unknown id
\* raises KeyError.
ScanStart_raising(strategy_id) ==
    /\ pc = "idle"
    /\ \/ /\ get_strategy(strategy_id) = None
          /\ pc' = "raised"
          /\ UNCHANGED <<scanned, pending, results, returned>>
       \/ /\ get_strategy(strategy_id) # None
          /\ scanned' = get_strategy(strategy_id)
          /\ results' = <<>>
          /\ pending' = stock_data_dict
          /\ pc' = "loop"
          /\ UNCHANGED returned
    /\ UNCHANGED <<presetVars, indVars, callVars, crossVars, data, condVars, stratVars, strategies, stock_data_dict>>

\* Lines 235-239: the strategy is looked up; an unknown id returns [].
ScanStart(strategy_id) ==
    /\ pc = "idle"
    /\ \/ /\ get_strategy(strategy_id) = None
          /\ pc' = "returned"
          /\ returned' = <<>>
          /\ UNCHANGED <<scanned, pending, results>>
       \/ /\ get_strategy(strategy_id) # None
          /\ scanned' = get_strategy(strategy_id)
          /\ results' = <<>>
          /\ pending' = stock_data_dict
          /\ pc' = "loop"
          /\ UNCHANGED returned
    /\ UNCHANGED <<presetVars, indVars, callVars, crossVars, data, condVars, stratVars, strategies, stock_data_dict>>

\* Lines 241-263: one pass of the for loop.
ScanPass ==
    /\ pc = "loop"
    /\ pending # <<>>
    /\ results' = ScanItem(results, scanned, Head(pending))
    /\ pending' = Tail(pending)
    /\ UNCHANGED <<presetVars, indVars, callVars, crossVars, data, condVars, stratVars, strategies, stock_data_dict,
                   pc, scanned, returned>>

\* Line 265.
ScanReturn ==
    /\ pc = "loop"
    /\ pending = <<>>
    /\ returned' = results
    /\ pc' = "returned"
    /\ UNCHANGED <<presetVars, indVars, callVars, crossVars, data, condVars, stratVars, strategies, stock_data_dict,
                   scanned, pending, results>>

Next == (\E id \in StrategyIds : ScanStart(id)) \/ ScanPass \/ ScanReturn

Spec == Init /\ [][Next]_vars

-----------------------------------------------------------------------------
(* SpecIndicator: calculate_sma and calculate_rsi on one frame, with one   *)
(* period.                                                                 *)

IndicatorFrames ==
    {Frame(c) : c \in SeqsUpTo({Int2F(v) : v \in 1..IndMaxVal}, IndMaxLen)}

InitIndicator ==
    /\ data \in IndicatorFrames
    /\ given_period \in 1..(IndMaxLen + 1)
    /\ sma = None
    /\ rsi = None
    /\ IdleCross /\ IdleCond /\ IdleStrategy /\ IdleScan /\ IdlePreset /\ IdleCalls

CalculateSma ==
    /\ sma = None
    /\ sma' = calculate_sma(data, given_period)
    /\ UNCHANGED <<presetVars, callVars, given_period, rsi, crossVars, data, condVars,
                   stratVars, scanVars>>

CalculateRsi ==
    /\ rsi = None
    /\ rsi' = calculate_rsi(data, given_period)
    /\ UNCHANGED <<presetVars, callVars, given_period, sma, crossVars, data, condVars,
                   stratVars, scanVars>>

NextIndicator == CalculateSma \/ CalculateRsi

SpecIndicator == InitIndicator /\ [][NextIndicator]_vars

-----------------------------------------------------------------------------
(* SpecPreset: a preset scanner over a dict of frames, one pass of its for *)
(* loop at a time, from the state in which its results list is empty.      *)

InitPreset ==
    /\ preset \in PresetCalls
    /\ stock_data_dict \in PresetDicts(preset.name)
    /\ strategies = [id \in {} |-> None]
    /\ scanned = None
    /\ pc = "preset_loop"
    /\ pending = stock_data_dict
    /\ results = <<>>
    /\ returned = <<>>
    /\ IdleCross /\ IdleData /\ IdleCond /\ IdleStrategy /\ IdleIndicator /\ IdleCalls

\* One pass of the for loop of the scanner.
PresetPass ==
    /\ pc = "preset_loop"
    /\ pending # <<>>
    /\ results' = PresetItem(preset, results, Head(pending))
    /\ pending' = Tail(pending)
    /\ UNCHANGED <<presetVars, indVars, callVars, crossVars, data, condVars, stratVars,
                   strategies, stock_data_dict, pc, scanned, returned>>

\* The end of the loop: the top gainers and losers sort their list and mark
\* its head, and the list is returned.
PresetReturn ==
    /\ pc = "preset_loop"
    /\ pending = <<>>
    /\ results' = PresetFinal(preset, results)
    /\ returned' = results'
    /\ pc' = "returned"
    /\ UNCHANGED <<presetVars, indVars, callVars, crossVars, data, condVars, stratVars,
                   strategies, stock_data_dict, scanned, pending>>

NextPreset == PresetPass \/ PresetReturn

SpecPreset == InitPreset /\ [][NextPreset]_vars

-----------------------------------------------------------------------------
(* SpecBatch: a batch scan, by scan_stocks or by a preset scanner.         *)

InitBatch == Init \/ InitPreset

NextBatch == Next \/ NextPreset

SpecBatch == InitBatch /\ [][NextBatch]_vars

-----------------------------------------------------------------------------
(* SpecEndpoint: a scan endpoint of main.py, which runs the batch scan and *)
(* ranks the list it returned.  The strategy endpoint answers 404 to an    *)
(* unknown strategy id before it scans.                                    *)

\* Lines 297-299 and 387-389.
Respond ==
    /\ pc = "returned"
    /\ preset # None \/ scanned # None
    /\ response = None
    /\ response' = [results |-> sort_matched_first(returned)]
    /\ UNCHANGED <<presetVars, indVars, zz, now, reply, history, crossVars, data,
                   condVars, stratVars, scanVars>>

NextEndpoint == NextBatch \/ Respond

SpecEndpoint == InitBatch /\ [][NextEndpoint]_vars

-----------------------------------------------------------------------------
(* SpecZigZag: create_zigzag_points, one pass of its for loop a step.  zz  *)
(* holds the arguments and the locals of the call.                         *)

ZzMaxLen == 4

\* Samples 1 % and less than 1 % apart, and a zero.
ZigZagValues == {Int2F(v) : v \in {0, 98, 99, 100, 101}}

ZigZagSeries == SeqsUpTo(ZigZagValues, ZzMaxLen)

ZigZagRetraces == {MinRetrace, Int2F(1), Int2F(2)}

InitZigZag ==
    /\ zz = None
    /\ response = None /\ now = 0 /\ reply = None /\ history = <<>>
    /\ IdleCross /\ IdleData /\ IdleCond /\ IdleStrategy /\ IdleScan /\ IdlePreset
    /\ IdleIndicator

\* Lines 239-246: the early return on an empty series, else the locals
\* before the loop.
ZigZagCall(series, min_retrace) ==
    /\ zz = None
    /\ zz' = IF Len(series) = 0
             THEN [series |-> series, min_retrace |-> min_retrace, pc |-> "returned",
                   i |-> 0, cur_val |-> None, cur_pos |-> 0, cur_dir |-> 1,
                   result_data |-> <<>>]
             ELSE [series |-> series, min_retrace |-> min_retrace, pc |-> "loop",
                   i |-> 0, cur_val |-> series[1], cur_pos |-> 0, cur_dir |-> 1,
                   result_data |-> <<>>]
    /\ UNCHANGED <<presetVars, indVars, response, now, reply, history, crossVars, data,
                   condVars, stratVars, scanVars>>

\* Lines 248-258: the pass of the loop for position zz.i.
ZigZagPass ==
    /\ zz # None
    /\ zz.pc = "loop"
    /\ zz.i < Len(zz.series)
    /\ zz' = IF Continues(zz.series[zz.i + 1], zz.cur_val, zz.cur_dir)
             THEN [zz EXCEPT !.cur_val = zz.series[zz.i + 1],
                             !.cur_pos = zz.i,
                             !.i = zz.i + 1]
             ELSE IF Retraces(zz.series[zz.i + 1], zz.cur_val, zz.min_retrace)
             THEN [zz EXCEPT !.result_data =
                                 Append(zz.result_data,
                                        [index |-> zz.cur_pos, Value |-> zz.cur_val,
                                         Dir |-> zz.cur_dir]),
                             !.cur_val = zz.series[zz.i + 1],
                             !.cur_pos = zz.i,
                             !.cur_dir = -zz.cur_dir,
                             !.i = zz.i + 1]
             ELSE [zz EXCEPT !.i = zz.i + 1]
    /\ UNCHANGED <<presetVars, indVars, response, now, reply, history, crossVars, data,
                   condVars, stratVars, scanVars>>

\* Line 260.
ZigZagReturn ==
    /\ zz # None
    /\ zz.pc = "loop"
    /\ zz.i = Len(zz.series)
    /\ zz' = [zz EXCEPT !.pc = "returned"]
    /\ UNCHANGED <<presetVars, indVars, response, now, reply, history, crossVars, data,
                   condVars, stratVars, scanVars>>

NextZigZag ==
    \/ \E series \in ZigZagSeries, min_retrace \in ZigZagRetraces :
          ZigZagCall(series, min_retrace)
    \/ ZigZagPass
    \/ ZigZagReturn

SpecZigZag == InitZigZag /\ [][NextZigZag]_vars

-----------------------------------------------------------------------------
(* SpecStore: the strategy store of StrategyEngine, lines 44-84, under a   *)
(* clock.  now counts the ticks of datetime.now(), TicksPerSecond to the   *)
(* second; reply is the last call with what it returned.  The strategies   *)
(* file is not modelled.                                                   *)

MaxClock == 3

TicksPerSecond == 2

\* Line 46: f"strategy_{datetime.now().strftime('%Y%m%d_%H%M%S')}", the clock
\* cut to the whole second.
strategy_id_at(clock) == <<"strategy", clock \div TicksPerSecond>>

StoreNames == {"n1", "n2"}

StoreIds == {strategy_id_at(c) : c \in 0..(MaxClock + TicksPerSecond)}

\* Lines 47-55; description, conditions and timeframe are stored like name.
new_strategy(strategy_id, name, clock) ==
    [id |-> strategy_id, name |-> name, created_at |-> clock, updated_at |-> clock]

InitStore ==
    /\ strategies = [id \in {} |-> None]
    /\ now = 0
    /\ reply = None
    /\ response = None /\ zz = None /\ history = <<>>
    /\ stock_data_dict = <<>> /\ pc = "idle" /\ scanned = None /\ pending = <<>>
    /\ results = <<>> /\ returned = <<>>
    /\ IdleCross /\ IdleData /\ IdleCond /\ IdleStrategy /\ IdlePreset /\ IdleIndicator

\* Time passes between two calls.
Tick ==
    /\ now < MaxClock
    /\ now' = now + 1
    /\ UNCHANGED <<presetVars, indVars, response, zz, reply, history, crossVars, data,
                   condVars, stratVars, scanVars>>

\* Lines 44-58.
CreateStrategy(name) ==
    /\ strategies' =
          [id \in DOMAIN strategies \cup {strategy_id_at(now)} |->
              IF id = strategy_id_at(now)
              THEN new_strategy(strategy_id_at(now), name, now)
              ELSE strategies[id]]
    /\ reply' = [call |-> "create_strategy", strategy_id |-> strategy_id_at(now),
                 ret |-> new_strategy(strategy_id_at(now), name, now)]
    /\ UNCHANGED <<presetVars, indVars, response, zz, now, history, crossVars, data,
                   condVars, stratVars, stock_data_dict, pc, scanned, pending,
                   results, returned>>

\* Lines 60-72, with name as the keyword argument (None: not given).
UpdateStrategy(strategy_id, name) ==
    /\ strategies' =
          IF strategy_id \notin DOMAIN strategies THEN strategies
          ELSE [strategies EXCEPT
                   ![strategy_id] =
                       [@ EXCEPT !.name = IF name # "None" THEN name ELSE @,
                                 !.updated_at = now]]
    /\ reply' = [call |-> "update_strategy", strategy_id |-> strategy_id,
                 ret |-> IF strategy_id \notin DOMAIN strategies THEN None
                         ELSE strategies'[strategy_id]]
    /\ UNCHANGED <<presetVars, indVars, response, zz, now, history, crossVars, data,
                   condVars, stratVars, stock_data_dict, pc, scanned, pending,
                   results, returned>>

\* Lines 74-80.
DeleteStrategy(strategy_id) ==
    /\ strategies' =
          IF strategy_id \in DOMAIN strategies
          THEN [id \in DOMAIN strategies \ {strategy_id} |-> strategies[id]]
          ELSE strategies
    /\ reply' = [call |-> "delete_strategy", strategy_id |-> strategy_id,
                 ret |-> strategy_id \in DOMAIN strategies]
    /\ UNCHANGED <<presetVars, indVars, response, zz, now, history, crossVars, data,
                   condVars, stratVars, stock_data_dict, pc, scanned, pending,
                   results, returned>>

NextStore ==
    \/ Tick
    \/ \E name \in StoreNames : CreateStrategy(name)
    \/ \E strategy_id \in StoreIds, name \in StoreNames \cup {"None"} :
          UpdateStrategy(strategy_id, name)
    \/ \E strategy_id \in StoreIds : DeleteStrategy(strategy_id)

SpecStore == InitStore /\ [][NextStore]_vars

-----------------------------------------------------------------------------
(* SpecRepeat: evaluate_strategy called again and again on the frames of a *)
(* dict and the strategies of the store.  history is the log of the calls: *)
(* the frame's symbol, the strategy's id and the returned tuple.           *)

MaxHistory == 3

AdxHighs == {<<Int2F(10), Int2F(12)>>, <<Int2F(12), Int2F(10)>>, <<Int2F(12), Int2F(12)>>}

AdxLows == {<<Int2F(8), Int2F(9)>>, <<Int2F(9), Int2F(8)>>, <<Int2F(9), Int2F(9)>>}

AdxCloses == {<<Int2F(9), Int2F(10)>>, <<Int2F(9), Int2F(9)>>}

\* Frames of two bars, and a frame that has only its close column.
RepeatFrames ==
    {FrameOHLC(h, l, c) : h \in AdxHighs, l \in AdxLows, c \in AdxCloses}
    \cup {Frame(<<Int2F(9), Int2F(10)>>)}

AdxSpec == [type |-> "ADX", params |-> [period |-> 1]]

HighSpec == [type |-> "PRICE", params |-> [type |-> "high"]]

\* ADX(1) > 50 and high >= 12; SMA(2) <= close and ADX(1) >= high;
\* ADX(1) < 50.
RepeatStrategies ==
    [id \in {"s1", "s2", "s3"} |->
        CASE id = "s1" ->
               StrategyModel("s1", <<ConditionModel(AdxSpec, ">", NoIndicatorSpec, Int2F(50)),
                                     ConditionModel(HighSpec, ">=", NoIndicatorSpec, Int2F(12))>>)
          [] id = "s2" ->
               StrategyModel("s2", <<ConditionModel(Sma2Spec, "<=", PriceSpec, None),
                                     ConditionModel(AdxSpec, ">=", HighSpec, None)>>)
          [] OTHER ->
               StrategyModel("s3", <<ConditionModel(AdxSpec, "<", NoIndicatorSpec, Int2F(50))>>)]

InitRepeat ==
    /\ strategies = RepeatStrategies
    /\ stock_data_dict \in {<<[symbol |-> "A", data |-> a], [symbol |-> "B", data |-> b]>> :
                                a \in RepeatFrames,
                                b \in {FrameOHLC(<<Int2F(12), Int2F(10)>>,
                                                <<Int2F(8), Int2F(9)>>,
                                                <<Int2F(9), Int2F(10)>>)}}
    /\ history = <<>>
    /\ response = None /\ zz = None /\ now = 0 /\ reply = None
    /\ pc = "idle" /\ scanned = None /\ pending = <<>> /\ results = <<>>
    /\ returned = <<>>
    /\ IdleCross /\ IdleData /\ IdleCond /\ IdleStrategy /\ IdlePreset /\ IdleIndicator

\* evaluate_strategy(stock_data_dict[k].data, strategies[strategy_id]): the
\* tuple it returns, and the frame it leaves.
EvaluateAgain(k, strategy_id) ==
    /\ Len(history) < MaxHistory
    /\ history' = Append(history,
                         [symbol |-> stock_data_dict[k].symbol,
                          strategy_id |-> strategy_id,
                          tuple |-> evaluate_strategy(stock_data_dict[k].data,
                                                      strategies[strategy_id])])
    /\ stock_data_dict' =
          [stock_data_dict EXCEPT
              ![k].data = frame_after_strategy(stock_data_dict[k].data,
                                               strategies[strategy_id])]
    /\ UNCHANGED <<presetVars, indVars, response, zz, now, reply, crossVars, data,
                   condVars, stratVars, strategies, pc, scanned, pending, results,
                   returned>>

NextRepeat ==
    \E k \in 1..2, strategy_id \in {"s1", "s2", "s3"} : EvaluateAgain(k, strategy_id)

SpecRepeat == InitRepeat /\ [][NextRepeat]_vars

-----------------------------------------------------------------------------
(* Properties.  Comparisons of finite floats are written out here on       *)
(* numerators and denominators.                                            *)

NumLt(x, y) == x.n * y.d < y.n * x.d
NumLe(x, y) == x.n * y.d <= y.n * x.d

Literal(operator, x, y) ==
    CASE operator = ">" -> NumLt(y, x)
      [] operator = "<" -> NumLt(x, y)
      [] operator = ">=" -> NumLe(y, x)
      [] operator = "<=" -> NumLe(x, y)

Last(s) == s[Len(s)]

(* SpecStrategy *)

\* C1: when evaluate_strategy returns, conditions_met has one boolean per
\* condition of the strategy, the i-th being evaluate_condition's result on the
\* i-th condition, and matched is the conjunction of them all.
C1_StrategyIsOrderedAnd ==
    (evaluation.done /\ evaluation.exc = "") =>
        /\ Len(evaluation.condition_results) = Len(strategy.conditions)
        /\ \A i \in 1..Len(strategy.conditions) :
              /\ evaluate_condition(data, strategy.conditions[i]).exc = ""
              /\ evaluation.condition_results[i]
                    = evaluate_condition(data, strategy.conditions[i]).val
        /\ evaluation.all_met
              = (\A i \in 1..Len(evaluation.condition_results) :
                    evaluation.condition_results[i])

\* A strategy of two conditions was evaluated to a true and then a false result.
C1_Witness ==
    /\ evaluation.done /\ evaluation.exc = ""
    /\ evaluation.condition_results = <<TRUE, FALSE>>
    /\ ~evaluation.all_met

(* Spec *)

\* The frame is one that scan_stocks does not skip at line 242.
NonEmptyFrame(frame) == frame # None /\ frame.nrows > 0

ScannedZeroConditions == scanned # None /\ scanned.conditions = <<>>

\* C2: under a strategy with no conditions every result of scan_stocks has
\* matched = true and an empty conditions_met, and every symbol whose frame is
\* non-empty and has its close column is in the returned list.
C2_ZeroConditionsMatch ==
    ScannedZeroConditions =>
        /\ \A i \in 1..Len(results) :
              results[i].matched /\ results[i].conditions_met = <<>>
        /\ pc = "returned" =>
              /\ returned = results
              /\ \A k \in 1..Len(stock_data_dict) :
                    (/\ NonEmptyFrame(stock_data_dict[k].data)
                     /\ "close" \in stock_data_dict[k].data.columns)
                    => \E i \in 1..Len(returned) :
                          /\ returned[i].symbol = stock_data_dict[k].symbol
                          /\ returned[i].matched

\* A scan under a strategy with no conditions returned two matched results.
C2_Witness ==
    /\ pc = "returned" /\ ScannedZeroConditions
    /\ Len(returned) = 2
    /\ returned[1].matched /\ returned[2].matched

(* SpecCond *)

Ind1 == calculate_indicator(data, condition.indicator1, condition.indicator1_params)
Ind2 == calculate_indicator(data, condition.indicator2, condition.indicator2_params)

\* Indicator 1 was computed and its latest value is defined.
HasLatest1 ==
    Ind1.exc = "" /\ ~Ind1.none /\ Len(Ind1.s) > 0 /\ Last(Ind1.s) # NaN

ReturnedFalse == outcome.done /\ outcome.exc = "" /\ outcome.val = FALSE

CrossOperators == {"CROSSES_ABOVE", "CROSSES_BELOW"}

\* C3: evaluate_condition returns false, and does not raise, when indicator 1
\* is None or empty or its latest value is NaN; so it does for an SMA or RSI
\* whose period exceeds the number of bars, with every operator.
C3_UndefinedIndicator1IsFalse ==
    outcome.done =>
        /\ (Ind1.exc = "" /\ (Ind1.none \/ Len(Ind1.s) = 0 \/ Last(Ind1.s) = NaN))
              => ReturnedFalse
        /\ (/\ condition.indicator1 \in {"SMA", "RSI"}
            /\ "period" \in DOMAIN condition.indicator1_params
            /\ "close" \in data.columns
            /\ data.nrows < condition.indicator1_params.period)
              => ReturnedFalse

\* RSI(14) CROSSES_ABOVE an indicator2 whose parameters are None, on a frame of
\* 3 bars: false, the indicator2 is never computed.
C3_Witness ==
    /\ ReturnedFalse
    /\ condition.indicator1 = "RSI" /\ condition.indicator1_params.period = 14
    /\ condition.operator = "CROSSES_ABOVE"
    /\ condition.indicator2 = "SMA" /\ condition.indicator2_params = None
    /\ data.nrows = 3

\* C4: for >, <, >=, <= the operand is indicator2's latest value when the
\* condition has an indicator2 (false when that value is None or NaN) and the
\* static value otherwise (false when absent), and the result is the literal
\* comparison of indicator 1's latest value with the operand.
C4_OperandAndComparison ==
    (/\ outcome.done /\ outcome.exc = ""
     /\ condition.operator \in {">", "<", ">=", "<="}
     /\ HasLatest1)
    => outcome.val
          = IF condition.indicator2 # NoIndicator
            THEN /\ Ind2.exc = "" /\ ~Ind2.none /\ Last(Ind2.s) # NaN
                 /\ Literal(condition.operator, Last(Ind1.s), Last(Ind2.s))
            ELSE /\ condition.value # None
                 /\ Literal(condition.operator, Last(Ind1.s), condition.value)

\* A condition with both an indicator2 and a static value was true by its
\* indicator2 although the comparison with its static value is false.
C4_Witness ==
    /\ outcome.done /\ outcome.exc = "" /\ outcome.val
    /\ condition.operator = ">"
    /\ condition.indicator2 # NoIndicator
    /\ condition.value # None
    /\ ~Literal(">", Last(Ind1.s), condition.value)

\* The condition lacks the operand its operator needs.
MissingOperand ==
    /\ condition.indicator2 = NoIndicator
    /\ condition.operator \in CrossOperators \/ condition.value = None

\* C5: on a frame with its close column, a crossover condition without
\* indicator2, and a comparison condition with neither indicator2 nor a static
\* value, are false and do not raise.
C5_MissingOperandIsFalse ==
    (outcome.done /\ "close" \in data.columns /\ MissingOperand) => ReturnedFalse

\* A >= comparison with no operand was false although indicator 1 had a value.
C5_Witness ==
    /\ ReturnedFalse /\ MissingOperand /\ HasLatest1
    /\ condition.operator = ">="

\* The operand of a comparison is defined, and its value.
HasOperand ==
    IF condition.indicator2 # NoIndicator
    THEN Ind2.exc = "" /\ ~Ind2.none /\ Last(Ind2.s) # NaN
    ELSE condition.value # None
Operand ==
    IF condition.indicator2 # NoIndicator THEN Last(Ind2.s) ELSE condition.value

\* 100 * |x - y| < 1, that is |x - y| < 0.01.
WithinHundredth(x, y) ==
    100 * (IF x.n * y.d < y.n * x.d THEN y.n * x.d - x.n * y.d
           ELSE x.n * y.d - y.n * x.d) < x.d * y.d

\* C9: with == the result is true exactly when the absolute difference of
\* indicator 1's latest value and the operand is less than 0.01.
C9_EqualsIsTolerance ==
    (/\ outcome.done /\ outcome.exc = ""
     /\ condition.operator = "=="
     /\ HasLatest1 /\ HasOperand)
    => outcome.val = WithinHundredth(Last(Ind1.s), Operand)

\* An == condition was true of two values that differ.
C9_Witness ==
    /\ outcome.done /\ outcome.exc = "" /\ outcome.val
    /\ condition.operator = "=="
    /\ HasLatest1 /\ HasOperand
    /\ Last(Ind1.s) # Operand

(* SpecCross *)

\* Both series have two trailing samples and none of the four is NaN.
TwoPointTails ==
    /\ Len(crossA) >= 2 /\ Len(crossB) >= 2
    /\ crossA[Len(crossA)] # NaN /\ crossA[Len(crossA) - 1] # NaN
    /\ crossB[Len(crossB)] # NaN /\ crossB[Len(crossB) - 1] # NaN

\* C6: check_crossover(a, b) is true exactly when both series have two defined
\* trailing samples with a[-2] <= b[-2] and a[-1] > b[-1]; check_crossunder
\* exactly when a[-2] >= b[-2] and a[-1] < b[-1].
C6_CrossoverIff ==
    /\ crossed.above
          = (/\ TwoPointTails
             /\ NumLe(crossA[Len(crossA) - 1], crossB[Len(crossB) - 1])
             /\ NumLt(crossB[Len(crossB)], crossA[Len(crossA)]))
    /\ crossed.below
          = (/\ TwoPointTails
             /\ NumLe(crossB[Len(crossB) - 1], crossA[Len(crossA) - 1])
             /\ NumLt(crossA[Len(crossA)], crossB[Len(crossB)]))

\* A crossover was detected on series of different lengths, the earlier
\* samples being equal.
C6_Witness ==
    /\ crossed.above
    /\ Len(crossA) = 3 /\ Len(crossB) = 2
    /\ crossA[2] = crossB[1]

\* C7, as claimed: check_crossover(a, b) and check_crossunder(b, a) are never
\* both true.
C7_CrossoverExcludesSwappedCrossunder ==
    ~(crossed.above /\ crossed.belowSwapped)

\* C7, amended: check_crossover(a, b) and check_crossunder(a, b), of the same
\* arguments in the same order, are never both true.
C7_CrossoverExcludesCrossunder ==
    ~(crossed.above /\ crossed.below)

\* On two-point tails a crossover was detected, and no crossunder.
C7_Witness ==
    TwoPointTails /\ crossed.above /\ ~crossed.below

Tail2(s) == SubSeq(s, Len(s) - 1, Len(s))

\* C8: a step that changes the history of the series and leaves the last two
\* samples of each as they were leaves both detectors' results as they were.
C8_OnlyLastTwoSamples ==
    [][(/\ Len(crossA) >= 2 /\ Len(crossB) >= 2
        /\ Len(crossA') >= 2 /\ Len(crossB') >= 2
        /\ Tail2(crossA') = Tail2(crossA)
        /\ Tail2(crossB') = Tail2(crossB))
       => crossed' = crossed]_vars

\* A crossover on the last bar, after an earlier bar at which series A was
\* already above series B.
C8_Witness ==
    /\ Len(crossA) = 3 /\ Len(crossB) = 3
    /\ crossed.above
    /\ crossA[1] = Int2F(2) /\ crossB[1] = Int2F(1)

(* Spec *)

\* Evaluating the item raises nothing: evaluate_strategy returns and the frame
\* has the close column that current_price is read from.
EvaluatesWithoutFault(item) ==
    /\ evaluate_strategy(item.data, scanned).exc = ""
    /\ "close" \in item.data.columns

\* The number of results for the symbol.
ResultsFor(list, symbol) ==
    Cardinality({i \in 1..Len(list) : list[i].symbol = symbol})

\* C10: a scan under an existing strategy returns exactly one result for each
\* symbol whose frame is not None, not empty and evaluates without fault, none
\* for a symbol whose frame is None or empty, no symbol twice and no symbol
\* that is not a key of the dict.
C10_OneResultPerSurvivor ==
    (pc = "returned" /\ scanned # None) =>
        /\ \A k \in 1..Len(stock_data_dict) :
              LET item == stock_data_dict[k]
              IN  /\ (NonEmptyFrame(item.data) /\ EvaluatesWithoutFault(item))
                        => ResultsFor(returned, item.symbol) = 1
                  /\ ~NonEmptyFrame(item.data)
                        => ResultsFor(returned, item.symbol) = 0
        /\ \A i \in 1..Len(returned) :
              /\ ResultsFor(returned, returned[i].symbol) = 1
              /\ \E k \in 1..Len(stock_data_dict) :
                    stock_data_dict[k].symbol = returned[i].symbol

\* A scan of two symbols, the first with an empty frame, returned one result.
C10_Witness ==
    /\ pc = "returned" /\ scanned # None
    /\ Len(stock_data_dict) = 2
    /\ stock_data_dict[1].data = Frame(<<>>)
    /\ Len(returned) = 1
    /\ returned[1].symbol = stock_data_dict[2].symbol

(* SpecBatch *)

\* The dict without its k-th item.
Without(dict, k) == SubSeq(dict, 1, k - 1) \o SubSeq(dict, k + 1, Len(dict))

\* scan_stocks' loop over a whole dict.
RECURSIVE RunScan(_, _, _)
RunScan(strat, dict, so_far) ==
    IF dict = <<>> THEN so_far
    ELSE RunScan(strat, Tail(dict), ScanItem(so_far, strat, Head(dict)))

\* A preset scanner's loop over a whole dict.
RECURSIVE RunPresetLoop(_, _, _)
RunPresetLoop(call, dict, so_far) ==
    IF dict = <<>> THEN so_far
    ELSE RunPresetLoop(call, Tail(dict), PresetItem(call, so_far, Head(dict)))

\* What the call in progress returns for a dict.
BatchResult(dict) ==
    IF preset # None THEN PresetFinal(preset, RunPresetLoop(preset, dict, <<>>))
    ELSE IF scanned = None THEN <<>>
    ELSE RunScan(scanned, dict, <<>>)

\* The rows a preset scanner asks of a frame before it enters its try block.
RowsAsked(call) ==
    CASE call.name = "MA44" -> Ma44MinRows
      [] call.name \in {"MA44_CROSS_MA200", "DOWN_TO_MA200", "MAGNET_EFFECT"} ->
            Ma200MinRows
      [] call.name = "EMA_CROSSOVER" -> EmaMinRows
      [] call.name \in {"TOP_GAINERS", "TOP_LOSERS"} -> call.days

\* Evaluating the item raises a fault inside the loop body of the call in
\* progress: under scan_stocks, evaluate_strategy raises or the close column is
\* missing; under a preset scanner, the frame has the rows asked and lacks its
\* close column (a missing field), or its closes are all zero so that the
\* divisor of the scanner's percentage is zero (the resistance scanner skips
\* such a frame before it divides).
Faults(item) ==
    IF preset = None
    THEN scanned # None /\ NonEmptyFrame(item.data) /\ ~EvaluatesWithoutFault(item)
    ELSE /\ item.data # None
         /\ item.data.nrows >= RowsAsked(preset)
         /\ \/ "close" \notin item.data.columns
            \/ item.data.nrows > 0 /\ AllZeroCloses(item.data.close)
                                   /\ preset.name # "MAGNET_EFFECT"

\* C11: when a batch scan (scan_stocks or a preset scanner) returns, a symbol
\* whose evaluation raised a fault has no result, and the returned list is the
\* list the same call returns for the dict without that symbol: every other
\* symbol, before or after it, has the result it has in that batch.
C11_FailureIsolation ==
    pc = "returned" =>
        \A k \in 1..Len(stock_data_dict) :
            Faults(stock_data_dict[k]) =>
                /\ ResultsFor(returned, stock_data_dict[k].symbol) = 0
                /\ returned = BatchResult(Without(stock_data_dict, k))

\* The top gainers returned a result for every symbol but one of a dict of more
\* than TopCount symbols, whose frame number TopCount lacks its close column.
C11_Witness ==
    /\ pc = "returned" /\ preset # None /\ preset.name = "TOP_GAINERS"
    /\ Len(stock_data_dict) > TopCount
    /\ Faults(stock_data_dict[TopCount])
    /\ Len(returned) = Len(stock_data_dict) - 1

\* The list is a list of results for keys of the dict.
ResultList(list, dict) ==
    \A i \in 1..Len(list) : \E k \in 1..Len(dict) : list[i].symbol = dict[k].symbol

\* C12: a batch scan never fails.  Every step of scan_stocks or of a preset
\* scanner either returns a list of results for keys of the dict (the empty
\* list when the strategy id is unknown), or enters the loop, or is a pass of
\* the loop that leaves fewer items to visit: no step ends the call in an
\* exception, and the loop comes to its end.
C12_AlwaysReturns ==
    [][\/ /\ pc' = "returned"
          /\ ResultList(returned', stock_data_dict')
          /\ (pc = "idle" /\ scanned' = None) => returned' = <<>>
       \/ /\ pc' \in {"loop", "preset_loop"}
          /\ pc = "idle" \/ Len(pending') < Len(pending)]_vars

\* A scan of two frames without their close column returned the empty list.
C12_Witness ==
    /\ pc = "returned"
    /\ Len(stock_data_dict) = 2
    /\ \A k \in 1..2 : /\ stock_data_dict[k].data # None
                       /\ stock_data_dict[k].data.columns = {}
    /\ returned = <<>>

(* SpecPreset *)

TopCall == preset # None /\ preset.name \in {"TOP_GAINERS", "TOP_LOSERS"}

\* The item qualifies for the top gainers and losers: its frame has days rows
\* and a close column whose sample days rows back from the end is not 0.
Qualifies(item, days) ==
    /\ item.data # None
    /\ item.data.nrows >= days
    /\ "close" \in item.data.columns
    /\ item.data.close[item.data.nrows - days + 1] # Int2F(0)

MinOf(a, b) == IF a < b THEN a ELSE b

C14_ChangeFromDaysBack ==
    (pc = "returned" /\ TopCall) =>
        \A i \in 1..Len(returned) :
            \A k \in 1..Len(stock_data_dict) :
                stock_data_dict[k].symbol = returned[i].symbol =>
                    /\ stock_data_dict[k].data.nrows >= preset.days + 1
                    /\ change_pct(returned[i])
                         = FMul(FDiv(FSub(ilocNeg(stock_data_dict[k].data.close, 1),
                                          ilocNeg(stock_data_dict[k].data.close,
                                                  preset.days + 1)),
                                     ilocNeg(stock_data_dict[k].data.close,
                                             preset.days + 1)),
                                Int2F(100))

\* The closes are positive whole numbers.
WholeCloses(close) ==
    \A i \in 1..Len(close) : close[i].d = 1 /\ close[i].n > 0

\* The sum of the 44 closes up to bar i (bars are numbered from 1).
RECURSIVE Sum44(_, _, _)
Sum44(close, i, k) ==
    IF k = 44 THEN 0 ELSE close[i - k].n + Sum44(close, i, k + 1)

\* The slope of the least-squares line through the last 5 values of SMA44 is
\* positive: the 5 values exist, and with x = 0..4 the slope is
\* (-2 y0 - y1 + y3 + 2 y4) / 10, each y being a 44-bar sum over 44.
SlopeOk44(close, n) ==
    /\ n >= 44 + 4
    /\ (2 * Sum44(close, n, 0) + Sum44(close, n - 1, 0))
         - (Sum44(close, n - 3, 0) + 2 * Sum44(close, n - 4, 0)) > 0

\* -3 < (SMA44 - close) / close * 100 < 3 at the latest bar, both sides
\* multiplied by 44 * close.
DiffOk44(close, n) ==
    /\ (-3) * 44 * close[n].n < 100 * (Sum44(close, n, 0) - 44 * close[n].n)
    /\ 100 * (Sum44(close, n, 0) - 44 * close[n].n) < 3 * 44 * close[n].n

\* close > SMA44 at the latest bar.
PriceAbove44(close, n) == 44 * close[n].n > Sum44(close, n, 0)

\* C15: a result of the MA44 preset has conditions_met = [slope_ok, diff_ok,
\* price_above_ma] in this order, where slope_ok is slope of the last 5 SMA44
\* values > 0, diff_ok is -3 < (SMA44 - close)/close*100 < 3 with both bounds
\* strict, and price_above_ma is close > SMA44; matched holds iff all three do.
C15_Ma44Matched ==
    (pc = "returned" /\ preset # None /\ preset.name = "MA44") =>
        \A i \in 1..Len(returned) :
            \A k \in 1..Len(stock_data_dict) :
                (/\ stock_data_dict[k].symbol = returned[i].symbol
                 /\ WholeCloses(stock_data_dict[k].data.close)) =>
                    /\ returned[i].conditions_met
                         = << SlopeOk44(stock_data_dict[k].data.close,
                                        stock_data_dict[k].data.nrows),
                              DiffOk44(stock_data_dict[k].data.close,
                                       stock_data_dict[k].data.nrows),
                              PriceAbove44(stock_data_dict[k].data.close,
                                           stock_data_dict[k].data.nrows) >>
                    /\ returned[i].matched
                         = (/\ SlopeOk44(stock_data_dict[k].data.close,
                                         stock_data_dict[k].data.nrows)
                            /\ DiffOk44(stock_data_dict[k].data.close,
                                        stock_data_dict[k].data.nrows)
                            /\ PriceAbove44(stock_data_dict[k].data.close,
                                            stock_data_dict[k].data.nrows))

\* The MA44 preset returned a matched result, and a result that is not matched
\* for the one reason that its close is exactly 3% above SMA44 (diff_pct = -3).
C15_Witness ==
    /\ pc = "returned" /\ preset # None /\ preset.name = "MA44"
    /\ \E i \in 1..Len(returned) : returned[i].matched
    /\ \E i \in 1..Len(returned) :
          /\ returned[i].conditions_met = <<TRUE, FALSE, TRUE>>
          /\ returned[i].indicator_values.diff_pct = Int2F(-3)

\* The bars the longest window of a preset's rule spans: for MA44 the 44 bars
\* of the first of the 5 SMA points of the slope and the 4 bars after it.
LongestWindow(call) ==
    CASE call.name = "MA44" -> 44 + (5 - 1)
      [] call.name \in {"MA44_CROSS_MA200", "DOWN_TO_MA200", "MAGNET_EFFECT"} -> 200
      [] call.name = "EMA_CROSSOVER" -> 30
      [] call.name \in {"TOP_GAINERS", "TOP_LOSERS"} -> call.days

\* C16: every result a preset returns is for an instrument that has at least
\* the bars of the longest window of the preset's rule, and the slope it
\* reports is defined: no result is computed from an undefined moving average
\* or slope input.
C16_NoResultOnShortHistory ==
    (pc = "returned" /\ preset # None) =>
        \A i \in 1..Len(returned) :
            /\ \A k \in 1..Len(stock_data_dict) :
                  stock_data_dict[k].symbol = returned[i].symbol =>
                      stock_data_dict[k].data.nrows >= LongestWindow(preset)
            /\ preset.name \in {"MA44", "DOWN_TO_MA200"} =>
                  ~isna(returned[i].indicator_values.slope)
            /\ preset.name = "MAGNET_EFFECT" =>
                  ~isna(returned[i].indicator_values.ma200_slope)

\* The elements of a sequence.
Range(s) == {s[j] : j \in 1..Len(s)}

\* The values of the points of direction +1 that ZigZag extraction finds over
\* the last 30 closes.
PeakValues(close) ==
    {p.Value : p \in {q \in Range(create_zigzag_points(iloc_last(close, 30), MinRetrace)) :
                        q.Dir = 1}}

\* C17: when the Magnet preset returns, an instrument whose last 30 closes
\* yield no ZigZag point of direction +1 has no result at all, and the
\* resistance of every result is the maximum value of the +1 points of its
\* instrument.
C17_NoPeakNoResult ==
    (pc = "returned" /\ preset # None /\ preset.name = "MAGNET_EFFECT") =>
        \A k \in 1..Len(stock_data_dict) :
            (stock_data_dict[k].data # None
                /\ "close" \in stock_data_dict[k].data.columns) =>
                /\ PeakValues(stock_data_dict[k].data.close) = {} =>
                      ResultsFor(returned, stock_data_dict[k].symbol) = 0
                /\ \A i \in 1..Len(returned) :
                      returned[i].symbol = stock_data_dict[k].symbol =>
                          /\ returned[i].indicator_values.resistance
                                \in PeakValues(stock_data_dict[k].data.close)
                          /\ \A v \in PeakValues(stock_data_dict[k].data.close) :
                                FLe(v, returned[i].indicator_values.resistance)

\* The Magnet preset returned one result for a dict of two instruments of more
\* than 200 bars: none for the first, whose closes are flat and have no peak,
\* and for the second a resistance of 112, the higher of its two peaks.
C17_Witness ==
    /\ pc = "returned" /\ preset # None /\ preset.name = "MAGNET_EFFECT"
    /\ Len(stock_data_dict) = 2
    /\ stock_data_dict[1].data # None
    /\ "close" \in stock_data_dict[1].data.columns
    /\ stock_data_dict[1].data.nrows > 200
    /\ ~AllZeroCloses(stock_data_dict[1].data.close)
    /\ PeakValues(stock_data_dict[1].data.close) = {}
    /\ Len(returned) = 1
    /\ returned[1].symbol = stock_data_dict[2].symbol
    /\ returned[1].indicator_values.resistance = Int2F(112)
    /\ Cardinality(PeakValues(stock_data_dict[2].data.close)) = 2

(* SpecIndicator *)

MinLen(a, b) == IF a < b THEN a ELSE b

\* The sum of the p closes up to bar i, the closes being whole numbers.
RECURSIVE TrailingSum(_, _, _)
TrailingSum(close, i, p) ==
    IF p = 0 THEN 0 ELSE close[i].n + TrailingSum(close, i - 1, p - 1)

\* C18: for a period p >= 1 and a series of n samples, calculate_sma returns
\* (it does not raise) a series of n values, of which the first min(n, p - 1)
\* are undefined and every later one is the arithmetic mean of the p samples up
\* to its position; so a window larger than the series gives n undefined
\* values.
C18_SmaShape ==
    sma # None =>
        /\ sma.exc = ""
        /\ Len(sma.s) = data.nrows
        /\ \A i \in 1..data.nrows :
              IF i <= MinLen(data.nrows, given_period - 1)
              THEN isna(sma.s[i])
              ELSE sma.s[i] = R(TrailingSum(data.close, i, given_period), given_period)

\* SMA of period 3 was taken of 4 samples and its two defined values differ.
C18_Witness ==
    /\ sma # None
    /\ given_period = 3
    /\ data.nrows = 4
    /\ sma.s[3] # sma.s[4]
    /\ ~isna(sma.s[4])

\* Average gain and average loss as calculate_rsi takes them.
AvgGain(close, period) == rolling_mean(where_gt0(diff(close)), period)
AvgLoss(close, period) == rolling_mean(neg_where_lt0(diff(close)), period)

\* C19: calculate_rsi returns (it does not raise) a series whose every defined
\* value lies in [0, 100]; where the average loss is 0 and the average gain is
\* positive the value is 100, and where both are 0 the value is undefined.
C19_RsiRange ==
    rsi # None =>
        /\ rsi.exc = ""
        /\ Len(rsi.s) = data.nrows
        /\ \A i \in 1..data.nrows :
              /\ ~isna(rsi.s[i]) =>
                    FLe(Int2F(0), rsi.s[i]) /\ FLe(rsi.s[i], Int2F(100))
              /\ (/\ AvgLoss(data.close, given_period)[i] = Int2F(0)
                  /\ FGt(AvgGain(data.close, given_period)[i], Int2F(0))) =>
                    rsi.s[i] = Int2F(100)
              /\ (/\ AvgLoss(data.close, given_period)[i] = Int2F(0)
                  /\ AvgGain(data.close, given_period)[i] = Int2F(0)) =>
                    isna(rsi.s[i])

\* RSI of period 2 was taken of 4 closes that rise, stay and fall: its values
\* are 100, one that is undefined, and one strictly between 0 and 100.
C19_Witness ==
    /\ rsi # None
    /\ given_period = 2
    /\ data.nrows = 4
    /\ \E i \in 1..4 : rsi.s[i] = Int2F(100)
    /\ \E i \in 1..4 : rsi.s[i] = Int2F(0)
    /\ \E i \in 1..4 :
          ~isna(rsi.s[i]) /\ FLt(Int2F(0), rsi.s[i]) /\ FLt(rsi.s[i], Int2F(100))

\* C20: undefined values propagate, so that RSI(period) is undefined at every
\* index whose window holds the undefined first difference of the closes: the
\* indices 0..period-1 (here the positions 1..period).
C20_RsiUndefinedOverFirstDifference ==
    rsi # None =>
        \A i \in 1..MinLen(data.nrows, given_period) : isna(rsi.s[i])

(* SpecBatch *)

\* The logical AND of a list of booleans.
AndOf(bools) == \A i \in 1..Len(bools) : bools[i]

\* The number of conditions of the rule of a per-instrument preset.
RuleLength(name) ==
    CASE name \in {"MA44", "DOWN_TO_MA200", "MAGNET_EFFECT"} -> 3
      [] name \in {"MA44_CROSS_MA200", "EMA_CROSSOVER"} -> 1

\* C29: in every result that scan_stocks or one of the five per-instrument
\* presets returns, matched is the logical AND of conditions_met; the
\* conditions_met of MA44, MA44xMA200, EMA10/30, Pullback-to-MA200 and Magnet
\* have 3, 1, 1, 3 and 3 entries.
C29_MatchedIsAndOfConditions ==
    (pc = "returned" /\ ~TopCall) =>
        \A i \in 1..Len(returned) :
            /\ returned[i].matched = AndOf(returned[i].conditions_met)
            /\ preset # None =>
                  Len(returned[i].conditions_met) = RuleLength(preset.name)

\* The MA44 preset returned a matched result and one that is not matched
\* because its first condition alone is false.
C29_Witness ==
    /\ pc = "returned" /\ preset # None /\ preset.name = "MA44"
    /\ \E i \in 1..Len(returned) :
          returned[i].matched /\ returned[i].conditions_met = <<TRUE, TRUE, TRUE>>
    /\ \E i \in 1..Len(returned) :
          ~returned[i].matched /\ returned[i].conditions_met = <<FALSE, TRUE, TRUE>>

(* SpecCond *)

\* C27: evaluate_condition returns a boolean and does not raise for a
\* condition that has an indicator2 and whose indicator2_params is None: it
\* returns what it returns for the same condition with an empty parameter
\* dict, in which every parameter takes its default.
C27_NoneParamsTakeDefaults ==
    (/\ outcome.done
     /\ "close" \in data.columns
     /\ condition.indicator2 # NoIndicator
     /\ condition.indicator2_params = None) =>
        /\ outcome.exc = ""
        /\ outcome = Outcome(evaluate_condition(
                          data, [condition EXCEPT !.indicator2_params = EmptyDict]))

(* SpecBatch *)

\* C25 as stated: the results a batch scan (scan_stocks or a preset scanner)
\* returns for a symbol depend on the series of that symbol alone: they are the
\* results the same call returns for the dict that holds this one symbol.
C25_PerInstrumentIndependence ==
    pc = "returned" =>
        \A k \in 1..Len(stock_data_dict) :
            {returned[i] : i \in {j \in 1..Len(returned) :
                                    returned[j].symbol = stock_data_dict[k].symbol}}
                = Range(BatchResult(<<stock_data_dict[k]>>))

\* A result without the mark of the top gainers and losers.
Unranked(result) ==
    IF TopCall THEN [result EXCEPT !.matched = FALSE] ELSE result

\* C25, amended: the results a batch scan returns for a symbol are the results
\* the same call returns for the dict that holds this one symbol, but for the
\* matched field of the top gainers and losers, which is the rank cutoff over
\* all the instruments of the scan.
C25_IndependentButForRank ==
    pc = "returned" =>
        \A k \in 1..Len(stock_data_dict) :
            {Unranked(returned[i]) :
                i \in {j \in 1..Len(returned) :
                          returned[j].symbol = stock_data_dict[k].symbol}}
                = {Unranked(r) : r \in Range(BatchResult(<<stock_data_dict[k]>>))}

\* The top gainers returned more than 20 results; the last is not matched,
\* and is matched when its symbol is scanned alone.
C25_Witness ==
    /\ pc = "returned" /\ preset # None /\ preset.name = "TOP_GAINERS"
    /\ Len(returned) > 20
    /\ ~returned[Len(returned)].matched
    /\ \E k \in 1..Len(stock_data_dict) :
          /\ stock_data_dict[k].symbol = returned[Len(returned)].symbol
          /\ BatchResult(<<stock_data_dict[k]>>)
                = <<[returned[Len(returned)] EXCEPT !.matched = TRUE]>>

\* C23: in a batch scan, at most one result is constructed for a symbol, and
\* a result that is in the results list stays in it with all its fields as
\* they were constructed, through every later step of the scan up to the
\* return.
C23_ResultsNeverMutated ==
    [][/\ \A i \in 1..Len(results) :
             \E j \in 1..Len(results') : results'[j] = results[i]
       /\ \A i, j \in 1..Len(results') :
             results'[i].symbol = results'[j].symbol => i = j]_vars

(* SpecPreset *)

\* The closes are whole numbers that rise by the same positive step from each
\* bar to the next.
ConstantRise(close) ==
    /\ Len(close) >= 2
    /\ WholeCloses(close)
    /\ close[2].n > close[1].n
    /\ \A i \in 2..Len(close) : close[i].n - close[i - 1].n = close[2].n - close[1].n

\* C26: for an instrument of at least 48 closes that rise by a constant
\* positive step, the MA44 preset returns a result whose ma44 is the mean of
\* the last 44 closes, whose slope (of the last 5 SMA44 values) is positive,
\* and whose conditions_met[0], slope_ok, is true.
C26_RisingSeriesSlopeOk ==
    (pc = "returned" /\ preset # None /\ preset.name = "MA44") =>
        \A k \in 1..Len(stock_data_dict) :
            (/\ stock_data_dict[k].data # None
             /\ "close" \in stock_data_dict[k].data.columns
             /\ stock_data_dict[k].data.nrows >= 48
             /\ ConstantRise(stock_data_dict[k].data.close)) =>
                \E i \in 1..Len(returned) :
                    /\ returned[i].symbol = stock_data_dict[k].symbol
                    /\ returned[i].indicator_values.ma44
                         = R(Sum44(stock_data_dict[k].data.close,
                                   stock_data_dict[k].data.nrows, 0), 44)
                    /\ NumLt(Int2F(0), returned[i].indicator_values.slope)
                    /\ returned[i].conditions_met[1]

\* The MA44 preset returned a result for the 50 closes 100..149: its ma44 is
\* 127.5, its slope is 1 and slope_ok is true.
C26_Witness ==
    /\ pc = "returned" /\ preset # None /\ preset.name = "MA44"
    /\ Len(stock_data_dict) = 1
    /\ stock_data_dict[1].data # None
    /\ "close" \in stock_data_dict[1].data.columns
    /\ stock_data_dict[1].data.nrows = 50
    /\ stock_data_dict[1].data.close[1] = Int2F(100)
    /\ stock_data_dict[1].data.close[50] = Int2F(149)
    /\ Len(returned) = 1
    /\ returned[1].indicator_values.ma44 = R(255, 2)
    /\ returned[1].indicator_values.slope = Int2F(1)
    /\ returned[1].conditions_met[1]

(* SpecEndpoint *)

\* The results of a list that are matched (wanted) or not (~wanted), in the
\* order of the list.
RECURSIVE Group(_, _)
Group(list, wanted) ==
    IF list = <<>> THEN <<>>
    ELSE IF Head(list).matched = wanted
    THEN <<Head(list)>> \o Group(Tail(list), wanted)
    ELSE Group(Tail(list), wanted)

\* C24: the list a scan endpoint sends back holds the results the scanner
\* returned, every matched result before every unmatched one, the matched
\* results in the order the scanner gave them and the unmatched ones likewise;
\* so the matched top gainers (losers) stay in descending (ascending) order of
\* change_pct.
C24_MatchedFirstStable ==
    response # None =>
        /\ response.results = Group(returned, TRUE) \o Group(returned, FALSE)
        /\ \A i, j \in 1..Len(response.results) :
              (response.results[i].matched /\ ~response.results[j].matched) => i < j
        /\ TopCall =>
              \A i, j \in 1..Len(response.results) :
                  (i < j /\ response.results[i].matched /\ response.results[j].matched) =>
                      IF preset.name = "TOP_GAINERS"
                      THEN NumLe(change_pct(response.results[j]), change_pct(response.results[i]))
                      ELSE NumLe(change_pct(response.results[i]), change_pct(response.results[j]))

\* scan_stocks returned an unmatched result before a matched one, and the
\* endpoint sent the matched one first.
C24_Witness ==
    /\ response # None /\ preset = None
    /\ Len(returned) = 2
    /\ ~returned[1].matched /\ returned[2].matched
    /\ response.results = <<returned[2], returned[1]>>

(* SpecZigZag *)

StrictlyIncreasing(s) == \A j \in 1..(Len(s) - 1) : NumLt(s[j], s[j + 1])

StrictlyDecreasing(s) == \A j \in 1..(Len(s) - 1) : NumLt(s[j + 1], s[j])

\* C21: of a strictly increasing or strictly decreasing series,
\* create_zigzag_points returns no point, whatever the retrace threshold.
C21_MonotonicSeriesNoPoints ==
    (zz # None /\ zz.pc = "returned"
     /\ (StrictlyIncreasing(zz.series) \/ StrictlyDecreasing(zz.series)))
    => zz.result_data = <<>>

\* x lies against the direction dir of the extreme c: below a high, above a
\* low.
Reverses(x, c, dir) == IF dir = 1 THEN NumLt(x, c) ELSE NumLt(c, x)

Magnitude(k) == IF k < 0 THEN -k ELSE k

\* |x - c| is at least m percent of |c|.
ByAtLeast(x, c, m) ==
    Magnitude(x.n * c.d - c.n * x.d) * 100 * m.d >= m.n * x.d * Magnitude(c.n)

\* c is the extreme, in direction dir, of the samples of s at the 0-based
\* positions from..(upto - 1).
RunningExtreme(c, s, from, upto, dir) ==
    /\ \E j \in (from + 1)..upto : s[j] = c
    /\ \A j \in (from + 1)..upto :
          IF dir = 1 THEN NumLe(s[j], c) ELSE NumLe(c, s[j])

\* The directions of the points alternate from +1 and their positions rise.
Alternates(points) ==
    /\ \A k \in 1..Len(points) :
          points[k].Dir = (IF k % 2 = 1 THEN 1 ELSE -1)
    /\ \A k \in 1..(Len(points) - 1) : points[k].index < points[k + 1].index

Called(call) == now' = now /\ reply' # None /\ reply'.call = call

\* C30: every create_strategy adds an entry under an id the store did not
\* have (the store grows by one and every strategy stored before is still
\* stored as it was), also for two creates in one clock second;
\* delete_strategy returns true exactly when the id was present and
\* get_strategy of the id is None afterwards; update_strategy and
\* delete_strategy on an unknown id return None and false and leave the store
\* as it was.
C30_StoreCalls ==
    [][/\ Called("create_strategy") =>
            /\ reply'.strategy_id \notin DOMAIN strategies
            /\ Cardinality(DOMAIN strategies') = Cardinality(DOMAIN strategies) + 1
            /\ \A id \in DOMAIN strategies :
                  id \in DOMAIN strategies' /\ strategies'[id] = strategies[id]
       /\ Called("delete_strategy") =>
            /\ reply'.ret = (reply'.strategy_id \in DOMAIN strategies)
            /\ \A id \in StoreIds :
                  reply'.strategy_id = id => get_strategy(id)' = None
       /\ (Called("delete_strategy") /\ reply'.strategy_id \notin DOMAIN strategies) =>
            (reply'.ret = FALSE /\ strategies' = strategies)
       /\ (Called("update_strategy") /\ reply'.strategy_id \notin DOMAIN strategies) =>
            (reply'.ret = None /\ strategies' = strategies)]_vars

(* SpecRepeat *)

\* C22: two evaluations of the same strategy on the same series give the same
\* matched and conditions_met (and the same exception, when one is raised),
\* whatever was evaluated before and between them; and an evaluation leaves
\* the series and the strategies as they were.
C22_EvaluationRepeats ==
    [][history' # history =>
        /\ stock_data_dict' = stock_data_dict
        /\ strategies' = strategies
        /\ \A i, j \in 1..Len(history') :
              (/\ history'[i].symbol = history'[j].symbol
               /\ history'[i].strategy_id = history'[j].strategy_id)
              => /\ history'[i].tuple.exc = history'[j].tuple.exc
                 /\ history'[i].tuple.all_met = history'[j].tuple.all_met
                 /\ history'[i].tuple.condition_results
                    = history'[j].tuple.condition_results]_vars

\* The ADX strategy s1 was evaluated on frame A, whose high falls (so that
\* calculate_adx assigns a zero into plus_dm), met its ADX condition but not
\* the other, and did so again after another strategy was evaluated on
\* another frame.
C22_Witness ==
    /\ Len(history) = 3
    /\ history[1].symbol = "A" /\ history[1].strategy_id = "s1"
    /\ history[2].symbol = "B" /\ history[2].strategy_id = "s2"
    /\ history[3] = history[1]
    /\ history[1].tuple.exc = ""
    /\ history[1].tuple.condition_results = <<TRUE, FALSE>>
    /\ "high" \in stock_data_dict[1].data.columns
    /\ FLt(stock_data_dict[1].data.high[2], stock_data_dict[1].data.high[1])

=============================================================================
